---------------------------- MODULE Spec2Model ----------------------------
(***************************************************************************)
(* Model of the Altair ground station (src/ground) and of the frames the   *)
(* nanosatellite firmware (src/nanosat) puts on the serial link.           *)
(*                                                                         *)
(* Every request handler of AltairServer::handle_request and every         *)
(* iteration of AltairServer::listen is one atomic step, with one          *)
(* exception: the id counter is shared by the io thread and the listen     *)
(* thread, so a thread that has to call generateID a second time inside    *)
(* send_packet_to_altair stops before that call (pc) and the other thread  *)
(* may run in between.  The specifications SpecIds and SpecThreads go      *)
(* below that grain: there a thread takes the mutex of the id generator,   *)
(* reads and writes the counter, enters and leaves the correlator map and  *)
(* calls write(2) in separate steps.  Bytes are integers 0..255, a         *)
(* uint32_t is an integer laid out little-endian (the values used stay     *)
(* below 2^31), and a float is carried as its IEEE-754 bit pattern.        *)
(***************************************************************************)
EXTENDS Integers, Sequences, FiniteSets, TLC

VARIABLES
    current_id,         \* IDGenerator::current_id (uint8_t)
    m_request_clients,  \* AltairServer::m_request_clients: id -> session
    m_latest_data,      \* AltairServer::m_latest_data (last beacon decoded)
    m_sensor_data,      \* ServerDataManager::m_sensor_data (sorted vector)
    active,             \* ClientSession::active_ of every operator session
    link,               \* bytes on the serial line, satellite -> ground
    response,           \* the accumulator `response` of AltairServer::listen
    pc,                 \* where each thread stands inside send_packet_to_altair
    outcome,            \* what the last iteration of listen produced
    delivered,          \* messages the last step wrote to operator sockets
    sent,               \* packets the last step handed to m_connection->send
    registered,         \* the correlator assignment the last step performed
    units,              \* the input chosen at the start: the units of the
                        \* reader's stream, or an operator's command line
    clients_,           \* TcpServer::clients_: the sessions the gateway holds
    mtx,                \* IDGenerator::mtx: the thread that holds it, or "free"
    calls,              \* generateID calls that have read the counter
    wire,               \* bytes on the serial line, ground -> satellite
    m_mutex,            \* ServerDataManager::m_mutex: its holder, or "free"
    task,               \* where each task of the satellite firmware stands
    queues,             \* TransmitContext: the three transmit queues
    g_evtID,            \* the event flags that are set
    uart,               \* what the last step put on the satellite's UART
    recieve_queue,      \* command frames received and not yet handled
    g_event_queue,      \* events waiting for event_task
    g_sensor_queue,     \* samples waiting for logger_beacon_task
    g_sensor_limits_change, \* updates waiting for collection_task
    g_flah_limits_change,   \* updates waiting for flash_task
    file_mutexes,       \* logger_task.c file_mutexes: the holder of each
    g_latest_sensor_data,   \* the last sample of collection_task
    rtc,                \* the real-time clock: its time in seconds
    sd_card             \* the sensor log files (file_names, contents) and
                        \* the event file

\* The state of the satellite firmware.
satvars == <<task, queues, g_evtID, uart, recieve_queue, g_event_queue,
             g_sensor_queue, g_sensor_limits_change, g_flah_limits_change,
             file_mutexes, g_latest_sensor_data, rtc, sd_card>>

\* What the steps of the atomic grain leave alone.
threadvars == <<mtx, calls, wire, m_mutex, satvars>>

vars == <<current_id, m_request_clients, m_latest_data, m_sensor_data, active,
          link, response, pc, outcome, delivered, sent, registered, units,
          clients_, mtx, calls, wire, m_mutex, satvars>>

-----------------------------------------------------------------------------
(* Protocol constants                                                      *)

END_MARK == 85
PACKET_HEADER_SIZE == 5
RESERVED_ID == 255
LINE_FEED == 10

BEACON == 1
TIME_SEND == 2
UPDATE_MIN_TEMP == 3
UPDATE_HUMIDITY == 4
UPDATE_VOLTAGE == 5
UPDATE_LIGHT == 6
EVENT == 7
ACK == 8
NACK == 9
UPDATE_MAX_TEMP == 10
TIME_REQUEST == 16
SENSOR_LOG == 17
TOTAL_LOGS == 18
REQUEST_SENSOR_LOGS == 19
EVENT_LOG == 20
EVENT_LOG_END == 21
REQUEST_EVENT_LOG == 22
REQUEST_CURRENT_TIME == 23
RESPONSE_CURRENT_TIME == 24

ERROR_MODE == 1
SAFE_MODE == 2
OK_MODE == 3

Byte == 0..255

\* The two operator sessions of the model.
Operators == {"op1", "op2"}

None == [kind |-> "none"]

-----------------------------------------------------------------------------
(* Byte layout helpers                                                     *)

\* The four bytes of a 32-bit value in memory order (little-endian host).
LE32(n) == << n % 256, (n \div 256) % 256, (n \div 65536) % 256,
              (n \div 16777216) % 256 >>

\* The 32-bit value whose bytes in memory are s[i], s[i+1], s[i+2], s[i+3].
ReadLE32(s, i) == s[i] + 256 * s[i + 1] + 65536 * s[i + 2]
                  + 16777216 * s[i + 3]

\* static_cast<uint8_t>(int)
ToU8(n) == n % 256

\* ::isalpha in the "C" locale
IsAlpha(b) == (b >= 65 /\ b <= 90) \/ (b >= 97 /\ b <= 122)


\* Concatenation of a sequence of byte sequences.
RECURSIVE Flatten(_)
Flatten(ss) == IF ss = << >> THEN << >> ELSE Head(ss) \o Flatten(Tail(ss))

\* An array of bytes of which the first Len(stored) have been written and
\* every other byte still holds what the memory held before (`rest`).
Unwritten(junk) == [stored |-> << >>, rest |-> junk]

\* buffer[i - 1] of the code
ByteAt(buffer, i) ==
    IF i <= Len(buffer.stored) THEN buffer.stored[i] ELSE buffer.rest

\* `buffer` with `bytes` stored from position 1 on (the payload loops that
\* fill packet.buffer[0 .. n-1]).
StoreBytes(buffer, bytes) ==
    [buffer EXCEPT !.stored =
        bytes \o SubSeq(@, Len(bytes) + 1, Len(@))]

-----------------------------------------------------------------------------
(* IDGenerator and the ground's packet codec                               *)

\* uint8_t id = current_id++ : the id returned and the counter afterwards.
generateID(cur) == [id |-> cur, next |-> (cur + 1) % 256]

\* A MessagePacket as create_message_packet returns it: the header fields
\* are set, the payload buffer is whatever the stack held (`junk`).
create_message_packet(type, response_id, junk) ==
    [ data_len     |-> PACKET_HEADER_SIZE,
      packetType   |-> type,
      m_respnse_id |-> response_id,
      checksum     |-> 0,
      buffer       |-> Unwritten(junk),
      end_mark     |-> END_MARK ]

\* Defect variant of message_buffer: the payload loop runs one byte too far
\* (i <= data_len - PACKET_HEADER_SIZE).
message_buffer_overrun(message_packet) ==
    << message_packet.data_len, message_packet.packetType,
       message_packet.m_respnse_id, message_packet.checksum >>
    \o [i \in 1..(message_packet.data_len - PACKET_HEADER_SIZE + 1) |->
            ByteAt(message_packet.buffer, i)]
    \o << message_packet.end_mark >>

\* The vector send_packet_to_altair builds from a packet and hands to the
\* connection.
message_buffer(message_packet) ==
    << message_packet.data_len, message_packet.packetType,
       message_packet.m_respnse_id, message_packet.checksum >>
    \o [i \in 1..(message_packet.data_len - PACKET_HEADER_SIZE) |->
            ByteAt(message_packet.buffer, i)]
    \o << message_packet.end_mark >>

\* send_value<T>: a packet of `type` under a newly generated id whose payload
\* is the sizeof(T) bytes of the value; the id counter afterwards.
send_value(type, value_bytes, cur, junk) ==
    LET g  == generateID(cur)
        p0 == create_message_packet(type, g.id, junk)
    IN  [ packet  |-> [p0 EXCEPT !.data_len = (@ + Len(value_bytes)) % 256,
                                 !.buffer   = StoreBytes(@, value_bytes)],
          next_id |-> g.next ]

\* get_sensor_in_range / get_event_in_range: the request packet with the two
\* timestamps under a newly generated id.
get_in_range(type, start, end, cur, junk) ==
    LET g  == generateID(cur)
        p0 == create_message_packet(type, g.id, junk)
    IN  [ packet  |-> [p0 EXCEPT !.data_len = (@ + 8) % 256,
                                 !.buffer   = StoreBytes(@, LE32(start) \o LE32(end))],
          next_id |-> g.next ]

\* get_current_time: data_len is raised by sizeof(uint32_t) and no payload
\* byte is written, so four bytes of the uninitialised buffer are sent.
get_current_time(cur, junk) ==
    LET g  == generateID(cur)
        p0 == create_message_packet(REQUEST_CURRENT_TIME, g.id, junk)
    IN  [ packet  |-> [p0 EXCEPT !.data_len = (@ + 4) % 256],
          next_id |-> g.next ]

\* PacketParser::is_valid_response
is_valid_response(r) ==
    /\ r # << >>
    /\ Len(r) >= PACKET_HEADER_SIZE
    /\ r[Len(r)] = END_MARK
    /\ Len(r) = r[1]

\* PacketParser::parse_sensor_data: `data` with the fields the frame holds;
\* the timestamp is read only from a frame of at least 16 bytes.
parse_sensor_data(r, data) ==
    IF Len(r) = 0 THEN data
    ELSE [ temp      |-> r[5],
           humid     |-> r[6],
           light     |-> r[7],
           mode      |-> r[8],
           voltage   |-> ReadLE32(r, 9),
           timestamp |-> IF Len(r) > 15 THEN ReadLE32(r, 13)
                         ELSE data.timestamp ]

\* Defect variant of parse_event_data: the timestamp is read only from a
\* frame longer than ten bytes.
parse_event_data_long(r, event_data) ==
    [ event     |-> r[5],
      timestamp |-> IF 10 < Len(r) THEN ReadLE32(r, 6)
                    ELSE event_data.timestamp ]

\* PacketParser::parse_event_data
parse_event_data(r, event_data) ==
    [ event     |-> r[5],
      timestamp |-> IF 8 < Len(r) THEN ReadLE32(r, 6)
                    ELSE event_data.timestamp ]

\* A value-initialised SensorData (m_latest_data after construction).
ZeroSensorData ==
    [temp |-> 0, humid |-> 0, light |-> 0, mode |-> 0, voltage |-> 0,
     timestamp |-> 0]

-----------------------------------------------------------------------------
(* Frames the satellite firmware builds (message_handler.c)                *)

\* send_message: data_len, type, id, checksum, data_len - 5 payload bytes,
\* END_MARK at offset data_len - 1.
send_message(data_len, type, id, checksum, buffer) ==
    << data_len, type, id, checksum >>
    \o [i \in 1..(data_len - PACKET_HEADER_SIZE) |-> buffer[i]]
    \o << END_MARK >>

send_ack(id)  == send_message(5, ACK, id, 0, << >>)
send_nack(id) == send_message(5, NACK, id, 0, << >>)

\* init_altair_task.c time_request
time_request == << 5, TIME_REQUEST, RESERVED_ID, 0, END_MARK >>

\* send_time: data_len 4 + HEADER_LEN + 2; the two bytes after the time are
\* never written.
send_time(id, now, junk) ==
    send_message(11, RESPONSE_CURRENT_TIME, id, 8, LE32(now) \o <<junk, junk>>)

SensorPayload(d) ==
    << d.temp, d.humid, d.light, d.mode >> \o LE32(d.voltage)
    \o LE32(d.timestamp)

\* send_sensor_logs: one SENSOR_LOG frame per reading, then the end frame
\* with the more-data flag.
send_sensor_logs(logs, id, more_data) ==
    Flatten([i \in 1..Len(logs) |->
                send_message(17, SENSOR_LOG, id, 8, SensorPayload(logs[i]))])
    \o send_message(6, TOTAL_LOGS, id, 0, << IF more_data # 0 THEN 1 ELSE 0 >>)

\* send_event_logs: one EVENT_LOG frame per event (data_len 11, the sixth
\* payload byte never written; the timestamp copied is the first event's),
\* then the end frame.
send_event_logs(events, id, junk) ==
    Flatten([i \in 1..Len(events) |->
                send_message(11, EVENT_LOG, id, 8,
                    << events[i].event >> \o LE32(events[1].timestamp)
                    \o << junk >>)])
    \o send_message(5, EVENT_LOG_END, id, 0, << >>)

send_keep_alive_packet(d) ==
    send_message(17, BEACON, RESERVED_ID, 8, SensorPayload(d))

send_event_packet(e) ==
    send_message(10, EVENT, RESERVED_ID, 8,
                 << e.event >> \o LE32(e.timestamp))

-----------------------------------------------------------------------------
(* Operator sessions, the sensor index and the correlator                  *)

\* Defect variant of sendMessage: the write is started whatever active_ says.
sendMessage_unchecked(client, text, data) ==
    << [to |-> client, text |-> text, data |-> data] >>

\* ClientSession::sendMessage: what reaches the socket; a session that was
\* stopped writes nothing.
sendMessage(client, text, data) ==
    IF active[client] THEN << [to |-> client, text |-> text, data |-> data] >>
    ELSE << >>

\* Defect variant of lower_bound: always the end of the vector.
lower_bound_end(vec, ts) == Len(vec) + 1

\* std::lower_bound on the timestamp: the first position whose timestamp is
\* not below ts (Len + 1 when there is none).
lower_bound(vec, ts) ==
    IF \E i \in 1..Len(vec) : vec[i].timestamp >= ts
    THEN CHOOSE i \in 1..Len(vec) :
            /\ vec[i].timestamp >= ts
            /\ \A j \in 1..(i - 1) : vec[j].timestamp < ts
    ELSE Len(vec) + 1

\* Defect variant of insertSensorData: a reading whose timestamp is stored
\* takes the place of the stored one.
insertSensorData_replacing(vec, data) ==
    LET pos == lower_bound(vec, data.timestamp)
    IN  IF pos <= Len(vec) /\ vec[pos].timestamp = data.timestamp
        THEN [vec EXCEPT ![pos] = data]
        ELSE SubSeq(vec, 1, pos - 1) \o << data >> \o SubSeq(vec, pos, Len(vec))

\* ServerDataManager::insertSensorData
insertSensorData(vec, data) ==
    LET pos == lower_bound(vec, data.timestamp)
    IN  IF pos <= Len(vec) /\ vec[pos].timestamp = data.timestamp THEN vec
        ELSE SubSeq(vec, 1, pos - 1) \o << data >> \o SubSeq(vec, pos, Len(vec))

\* What insertSensorData returns: true on both of its paths.
insertSensorData_returns(vec, data) == TRUE

\* std::upper_bound on the timestamp: the first position whose timestamp is
\* above ts (Len + 1 when there is none).
upper_bound(vec, ts) ==
    IF \E i \in 1..Len(vec) : vec[i].timestamp > ts
    THEN CHOOSE i \in 1..Len(vec) :
            /\ vec[i].timestamp > ts
            /\ \A j \in 1..(i - 1) : vec[j].timestamp <= ts
    ELSE Len(vec) + 1

\* An empty std::optional.
nullopt == [kind |-> "nullopt"]

\* A std::optional that holds `value`.
Some(value) == [kind |-> "value", value |-> value]

\* The copy loop of getSensorDataInRange between the positions lower and
\* upper of vec.  With upper before lower std::distance is negative and
\* result.reserve, given that number as a size_t, throws std::length_error.
copy_range(vec, lower, upper) ==
    IF upper < lower THEN [kind |-> "length_error"]
    ELSE Some(SubSeq(vec, lower, upper - 1))

\* ServerDataManager::getSensorDataInRange
getSensorDataInRange(vec, start_time, end_time) ==
    IF vec = << >> THEN nullopt
    ELSE IF start_time > vec[Len(vec)].timestamp THEN nullopt
    ELSE copy_range(vec, lower_bound(vec, start_time),
                    upper_bound(vec, end_time))

\* ServerDataManager::getSensorDataByTimestamp
getSensorDataByTimestamp(vec, timestamp) ==
    LET pos == lower_bound(vec, timestamp)
    IN  IF pos <= Len(vec) /\ vec[pos].timestamp = timestamp
        THEN Some(vec[pos]) ELSE nullopt

\* ServerDataManager::getMostRecentData
getMostRecentData(vec) ==
    IF vec = << >> THEN nullopt ELSE Some(vec[Len(vec)])

\* ServerDataManager::getAllSensorData
getAllSensorData(vec) == vec

\* ServerDataManager::size
size(vec) == Len(vec)

\* ServerDataManager::clear
clear(vec) == << >>

\* Defect variant of store_client: insert semantics, an id that is already
\* stored keeps its client.
store_client_if_absent(clients, id, client) ==
    [k \in (DOMAIN clients) \cup {id} |->
        IF k \in DOMAIN clients THEN clients[k] ELSE client]

\* m_request_clients[id] = client
store_client(clients, id, client) ==
    [k \in (DOMAIN clients) \cup {id} |-> IF k = id THEN client ELSE clients[k]]

\* m_request_clients.erase(it)
erase_client(clients, id) ==
    [k \in (DOMAIN clients) \ {id} |-> clients[k]]

\* What `registered` records of m_request_clients[id] = client.
Registration(id, client) ==
    [ kind |-> "registered", id |-> id, client |-> client,
      replaced |-> IF id \in DOMAIN m_request_clients
                   THEN m_request_clients[id] ELSE "nobody" ]

\* A SensorData / EventData local before anything is stored in it.
Uninitialised(junk) ==
    [temp |-> junk, humid |-> junk, light |-> junk, mode |-> junk,
     voltage |-> junk, timestamp |-> junk, event |-> junk]

-----------------------------------------------------------------------------
(* The satellite firmware: its tasks and what they share                   *)

Tasks ==
    {"init", "recieve", "transmit", "keep_alive", "event", "collector",
     "logger", "flash"}

\* A task that osThreadNew has not created yet.
Absent == [at |-> "absent"]

\* Nothing on the UART.
NoBytes == [by |-> "nobody", bytes |-> << >>]

\* sensor_data.h: the mode of g_latest_sensor_data before the first sample.
UNINTILIZED_MODE == 0

\* logger_task.c
MAX_DATA_FILES == 7

\* A slot of file_names that holds no name yet.
NoFile == [name |-> -1, opens |-> FALSE, records |-> << >>]

\* The satellite at power-on: only the init task exists, at the top of
\* init_altair.
PoweredOn ==
    /\ task = [t \in Tasks |-> IF t = "init" THEN [at |-> "init_system"]
                                ELSE Absent]
    /\ queues = [high |-> << >>, medium |-> << >>, low |-> << >>]
    /\ g_evtID = {}
    /\ uart = NoBytes
    /\ recieve_queue = << >>
    /\ g_event_queue = << >>
    /\ g_sensor_queue = << >>
    /\ g_sensor_limits_change = << >>
    /\ g_flah_limits_change = << >>
    /\ file_mutexes = [i \in 1..MAX_DATA_FILES |-> "free"]
    /\ g_latest_sensor_data = ZeroSensorData
    /\ rtc = 0
    /\ sd_card = [ sensor |-> [i \in 1..MAX_DATA_FILES |-> NoFile],
                   event  |-> [opens |-> FALSE, records |-> << >>] ]

-----------------------------------------------------------------------------
(* The two threads that send packets: "io" runs handle_request for every   *)
(* session, "listen" runs the loop of AltairServer::listen.  Each of them   *)
(* reads the id counter once per generateID call; a thread whose packet    *)
(* carries 0xFF calls generateID a second time inside                      *)
(* send_packet_to_altair, and the other thread may run in between.         *)

Threads == {"io", "listen"}

\* The thread is not inside send_packet_to_altair.
Ready == [at |-> "ready"]

\* What a caller does once send_packet_to_altair has returned: answer a
\* client, or nothing (None).
Message(client, text, data) ==
    [kind |-> "message", client |-> client, text |-> text, data |-> data]

Answer(then) ==
    IF then.kind = "message" THEN sendMessage(then.client, then.text, then.data)
    ELSE << >>

\* send_packet_to_altair, called with the id counter at `cur`, and what the
\* caller does afterwards.  A packet whose id is not 0xFF is sent as it is;
\* one whose id is 0xFF leaves the thread at the second generateID call.
send_packet_to_altair(thread, message_packet, cur, then) ==
    /\ current_id' = cur
    /\ IF message_packet.m_respnse_id = RESERVED_ID
       THEN /\ pc' = [pc EXCEPT ![thread] =
                        [at |-> "substitute", packet |-> message_packet,
                         then |-> then]]
            /\ sent' = << >>
            /\ delivered' = << >>
       ELSE /\ UNCHANGED pc
            /\ sent' = << message_buffer(message_packet) >>
            /\ delivered' = Answer(then)

\* The rest of send_packet_to_altair for a packet whose id was 0xFF: the id
\* is replaced by a newly generated one, the packet is sent, the caller goes
\* on.
substitute_id(thread) ==
    /\ pc[thread].at = "substitute"
    /\ LET g == generateID(current_id)
           p == [pc[thread].packet EXCEPT !.m_respnse_id = g.id]
       IN  /\ current_id' = g.next
           /\ sent' = << message_buffer(p) >>
           /\ delivered' = Answer(pc[thread].then)
    /\ pc' = [pc EXCEPT ![thread] = Ready]
    /\ UNCHANGED <<m_request_clients, m_latest_data, m_sensor_data, active,
                   link, response, units, clients_, threadvars>>
    /\ outcome' = None
    /\ registered' = None

-----------------------------------------------------------------------------
(* Response handlers of AltairServer.  Each one states the whole           *)
(* effect of the handler on the dispatcher's state and outputs.            *)

\* A handler, or an iteration of listen, that touches nothing.
NoEffect ==
    /\ UNCHANGED <<current_id, m_request_clients, m_latest_data, m_sensor_data,
                   pc>>
    /\ delivered' = << >>
    /\ sent' = << >>
    /\ registered' = None

\* Defect variant of complete_request: the client is answered and the entry
\* is left in the map.
complete_request_keeping(responseId, text, data) ==
    /\ delivered' = IF responseId \in DOMAIN m_request_clients
                    THEN sendMessage(m_request_clients[responseId], text, data)
                    ELSE << >>
    /\ UNCHANGED <<current_id, m_request_clients, m_latest_data, m_sensor_data,
                   pc>>
    /\ sent' = << >>
    /\ registered' = None

\* A terminal response: deliver `text` to the client stored under the id and
\* erase the entry; nothing when the id is not stored.
complete_request(responseId, text, data) ==
    /\ IF responseId \in DOMAIN m_request_clients
       THEN /\ delivered' = sendMessage(m_request_clients[responseId], text, data)
            /\ m_request_clients' = erase_client(m_request_clients, responseId)
       ELSE /\ delivered' = << >>
            /\ UNCHANGED m_request_clients
    /\ UNCHANGED <<current_id, m_latest_data, m_sensor_data, pc>>
    /\ sent' = << >>
    /\ registered' = None

\* Defect variant of stream_record: when the id is not stored the record goes
\* to the client of the lowest stored id.
stream_record_first(responseId, text, data) ==
    /\ delivered' =
          IF responseId \in DOMAIN m_request_clients
          THEN sendMessage(m_request_clients[responseId], text, data)
          ELSE IF DOMAIN m_request_clients # {}
          THEN sendMessage(
                   m_request_clients[CHOOSE k \in DOMAIN m_request_clients :
                       \A j \in DOMAIN m_request_clients : k <= j], text, data)
          ELSE << >>
    /\ UNCHANGED <<current_id, m_request_clients, m_latest_data, pc>>
    /\ sent' = << >>
    /\ registered' = None

\* A streamed record: deliver to the client stored under the id, keep the
\* entry.
stream_record(responseId, text, data) ==
    /\ delivered' = IF responseId \in DOMAIN m_request_clients
                    THEN sendMessage(m_request_clients[responseId], text, data)
                    ELSE << >>
    /\ UNCHANGED <<current_id, m_request_clients, m_latest_data, pc>>
    /\ sent' = << >>
    /\ registered' = None

\* Defect variant of handle_time_request: the request is not answered.
handle_time_request_silent(now, junk) == NoEffect

\* AltairServer::handle_time_request -> send_current_time
handle_time_request(now, junk) ==
    LET e == send_value(TIME_SEND, LE32(now), current_id, junk)
    IN  /\ send_packet_to_altair("listen", e.packet, e.next_id, None)
        /\ UNCHANGED <<m_request_clients, m_latest_data, m_sensor_data>>
        /\ registered' = None

\* Defect variant of handle_sensor_log: the entry is erased after the first
\* record, as a terminal handler does.
handle_sensor_log_erasing(r, responseId, junk) ==
    LET sensor_data == parse_sensor_data(r, Uninitialised(junk))
    IN  /\ m_sensor_data' = insertSensorData(m_sensor_data, sensor_data)
        /\ delivered' = IF responseId \in DOMAIN m_request_clients
                        THEN sendMessage(m_request_clients[responseId],
                                         "Sensor log data", sensor_data)
                        ELSE << >>
        /\ m_request_clients' = erase_client(m_request_clients, responseId)
        /\ UNCHANGED <<current_id, m_latest_data, pc>>
        /\ sent' = << >>
        /\ registered' = None

handle_sensor_log(r, responseId, junk) ==
    LET sensor_data == parse_sensor_data(r, Uninitialised(junk))
    IN  /\ m_sensor_data' = insertSensorData(m_sensor_data, sensor_data)
        /\ stream_record(responseId, "Sensor log data", sensor_data)

handle_sensor_log_end(r, responseId) ==
    /\ complete_request(responseId, "Completed retrieval of sensor logs.", << >>)

handle_ack(r, responseId) ==
    /\ complete_request(responseId, "Sucess operation", << >>)

handle_nack(r, responseId) ==
    /\ complete_request(responseId, "Request failed. Please try again.", << >>)

handle_event(r, responseId) ==
    /\ NoEffect

handle_event_log(r, responseId, junk) ==
    LET event_data == parse_event_data(r, Uninitialised(junk))
    IN  /\ stream_record(responseId, "Event log data", event_data)
        /\ UNCHANGED m_sensor_data

handle_event_log_end(r, responseId) ==
    /\ complete_request(responseId, "Completed retrieval of events logs.", << >>)

\* The time is read from offsets 4..7 only when the id is stored.
handle_response_current_time(r, responseId) ==
    /\ complete_request(responseId, "Current time",
           IF responseId \in DOMAIN m_request_clients
           THEN ReadLE32(r, 5) ELSE << >>)

\* Defect variant of handle_beacon: the reading is also put in the index.
handle_beacon_indexing(r, responseId) ==
    /\ m_latest_data' = parse_sensor_data(r, m_latest_data)
    /\ m_sensor_data' =
          insertSensorData(m_sensor_data, parse_sensor_data(r, m_latest_data))
    /\ UNCHANGED <<current_id, m_request_clients, pc>>
    /\ delivered' = << >>
    /\ sent' = << >>
    /\ registered' = None

\* handle_beacon: the frame is decoded over m_latest_data; nothing else.
handle_beacon(r, responseId) ==
    /\ m_latest_data' = parse_sensor_data(r, m_latest_data)
    /\ UNCHANGED <<current_id, m_request_clients, m_sensor_data, pc>>
    /\ delivered' = << >>
    /\ sent' = << >>
    /\ registered' = None

\* The frame handle_response classifies: a 9-byte frame gets the byte 10
\* put in front.
Compensated(r) == IF Len(r) = 9 THEN << 10 >> \o r ELSE r

\* AltairServer::handle_response
handle_response(frame, now, junk) ==
    IF Len(frame) < PACKET_HEADER_SIZE THEN NoEffect
    ELSE LET r            == Compensated(frame)
             responseType == r[2]
             responseId   == r[3]
         IN  CASE responseType = TIME_REQUEST -> handle_time_request(now, junk)
               [] responseType = SENSOR_LOG   -> handle_sensor_log(r, responseId, junk)
               [] responseType = TOTAL_LOGS   -> handle_sensor_log_end(r, responseId)
               [] responseType = ACK          -> handle_ack(r, responseId)
               [] responseType = NACK         -> handle_nack(r, responseId)
               [] responseType = EVENT        -> handle_event(r, responseId)
               [] responseType = EVENT_LOG    -> handle_event_log(r, responseId, junk)
               [] responseType = EVENT_LOG_END -> handle_event_log_end(r, responseId)
               [] responseType = RESPONSE_CURRENT_TIME ->
                                     handle_response_current_time(r, responseId)
               [] responseType = BEACON       -> handle_beacon(r, responseId)
               [] OTHER                       -> NoEffect

-----------------------------------------------------------------------------
(* The frame reader: one iteration of the loop of AltairServer::listen     *)

\* Defect variant of IsText: isalnum in place of isalpha.
IsText_alnum(r) ==
    IsAlpha(r[1]) \/ (r[1] >= 48 /\ r[1] <= 57) \/ r[1] = LINE_FEED

\* The accumulator starts a debug-text line.
IsText(r) == IsAlpha(r[1]) \/ r[1] = LINE_FEED

\* Defect variant of frame_complete: the end mark ends the frame whatever the
\* size.
frame_complete_any_mark(r, b) == b = END_MARK

\* The byte just appended ends the binary frame in the accumulator.
frame_complete(r, b) == b = END_MARK /\ Len(r) >= r[1]

\* The accumulator after the byte b and what the iteration produced: nothing,
\* a debug line printed, or a frame handed to handle_response.
listen_step(resp, b) ==
    LET r == Append(resp, b)
    IN  IF b = 0 /\ resp = << >>
        THEN [response |-> resp, outcome |-> None]
        ELSE IF IsText(r)
        THEN IF b = LINE_FEED
             THEN [ response |-> << >>,
                    outcome  |-> IF Len(r) > 1
                                 THEN [kind |-> "text", bytes |-> r]
                                 ELSE None ]
             ELSE [response |-> r, outcome |-> None]
        ELSE IF frame_complete(r, b)
             THEN [response |-> << >>, outcome |-> [kind |-> "frame", bytes |-> r]]
             ELSE [response |-> r, outcome |-> None]

\* One iteration of the loop: receive a byte, accumulate, print or dispatch.
listen(now, junk) ==
    /\ pc["listen"] = Ready
    /\ link # << >>
    /\ LET step == listen_step(response, Head(link))
       IN  /\ link' = Tail(link)
           /\ response' = step.response
           /\ outcome' = step.outcome
           /\ IF step.outcome.kind = "frame"
              THEN handle_response(step.outcome.bytes, now, junk)
              ELSE NoEffect
    /\ UNCHANGED <<active, units, clients_, threadvars>>

-----------------------------------------------------------------------------
(* Operator commands: the branches of AltairServer::handle_request.        *)
(* A command comes from a session that is still reading its socket.        *)

\* What a step that is no iteration of listen leaves alone.
NotListening ==
    /\ UNCHANGED <<link, response, active, units, clients_, threadvars>>
    /\ outcome' = None

\* The io thread takes a line from a session that is still open.
Serving(client) == active[client] /\ pc["io"] = Ready

\* A branch that only answers the client.
reply_only(client, text, data) ==
    /\ delivered' = sendMessage(client, text, data)
    /\ UNCHANGED <<current_id, m_request_clients, m_latest_data, m_sensor_data,
                   pc>>
    /\ sent' = << >>
    /\ registered' = None
    /\ NotListening

\* A branch that sends the packet of `e` without storing the client, then
\* answers the client.
send_uncorrelated(client, e, text, data) ==
    /\ send_packet_to_altair("io", e.packet, e.next_id,
                             Message(client, text, data))
    /\ UNCHANGED <<m_request_clients, m_latest_data, m_sensor_data>>
    /\ registered' = None
    /\ NotListening

\* A branch that stores the client under the id of the packet of `e`, sends
\* the packet, then does `then`.
send_correlated(client, e, then) ==
    /\ m_request_clients' =
          store_client(m_request_clients, e.packet.m_respnse_id, client)
    /\ registered' = Registration(e.packet.m_respnse_id, client)
    /\ send_packet_to_altair("io", e.packet, e.next_id, then)
    /\ UNCHANGED <<m_latest_data, m_sensor_data>>
    /\ NotListening

\* Defect variant of FloatLess: less than or equal.
FloatLess_or_equal(a, b) == a <= b

\* IEEE-754 single precision comparison on the bit patterns of two
\* non-negative floats (sign bit clear, no NaN): the patterns order as the
\* values do.
FloatLess(a, b) == a < b

FLOAT_0_1 == 1036831949
FLOAT_3_3 == 1079194419

cmd_get_sensor_data(client) ==
    /\ Serving(client)
    /\ reply_only(client, "Temperature:", m_latest_data)

cmd_get_recent_sensor_data(client, junk) ==
    /\ Serving(client)
    /\ IF m_latest_data.timestamp > 0
       THEN LET end_time   == m_latest_data.timestamp
                start_time == IF end_time > 50 THEN end_time - 50 ELSE 0
                e == get_in_range(REQUEST_SENSOR_LOGS, start_time, end_time,
                                  current_id, junk)
            IN  send_correlated(client, e,
                    Message(client,
                        "Retrieving sensor data from the last minute...", << >>))
       ELSE reply_only(client,
                "Error: No sensor data available yet. Wait for a beacon.", << >>)

\* update_light: the stream state is never looked at (`parsed` is not used);
\* light_value is whatever the extraction left in the variable.
cmd_update_light(client, parsed, light_value, junk) ==
    /\ Serving(client)
    /\ LET v == light_value
       IN  IF v >= 0 /\ v <= 100
           THEN send_uncorrelated(client,
                    send_value(UPDATE_LIGHT, << ToU8(v) >>, current_id, junk),
                    "Light updated to", v)
           ELSE reply_only(client,
                    "Error: Light value must be between 0 and 100", << >>)

cmd_update_min_temp(client, parsed, min_temp, junk) ==
    /\ Serving(client)
    /\ IF ~parsed
       THEN reply_only(client, "Error: Invalid temperature value", << >>)
       ELSE send_uncorrelated(client,
                send_value(UPDATE_MIN_TEMP, << ToU8(min_temp) >>, current_id, junk),
                "Minimum temperature updated to", min_temp)

cmd_update_max_temp(client, parsed, max_temp, junk) ==
    /\ Serving(client)
    /\ IF ~parsed
       THEN reply_only(client, "Error: Invalid temperature value", << >>)
       ELSE send_uncorrelated(client,
                send_value(UPDATE_MAX_TEMP, << ToU8(max_temp) >>, current_id, junk),
                "Maximum temperature updated to", max_temp)

cmd_update_humidity(client, parsed, humidity, junk) ==
    /\ Serving(client)
    /\ IF ~parsed
       THEN reply_only(client, "Error: Invalid humidity value", << >>)
       ELSE IF humidity >= 0 /\ humidity <= 100
       THEN send_uncorrelated(client,
                send_value(UPDATE_HUMIDITY, << ToU8(humidity) >>, current_id, junk),
                "Humidity updated to", humidity)
       ELSE reply_only(client,
                "Error: Humidity value must be between 0 and 100", << >>)

cmd_update_voltage(client, parsed, voltage, junk) ==
    /\ Serving(client)
    /\ IF ~parsed
       THEN reply_only(client, "Error: Invalid voltage value", << >>)
       ELSE IF FloatLess(FLOAT_3_3, voltage) \/ FloatLess(voltage, FLOAT_0_1)
       THEN reply_only(client,
                "Error: Voltage value must be between 0.1 and 3.3", << >>)
       ELSE send_uncorrelated(client,
                send_value(UPDATE_VOLTAGE, LE32(voltage), current_id, junk),
                "Voltage updated to", voltage)

cmd_get_sensor_logs(client, parsed, start, end, junk) ==
    /\ Serving(client)
    /\ IF ~parsed
       THEN reply_only(client, "Error: Invalid timestamp values. Format: get_logs", << >>)
       ELSE send_correlated(client,
                get_in_range(REQUEST_SENSOR_LOGS, start, end, current_id, junk),
                Message(client, "Requested logs between", << start, end >>))

cmd_get_events_logs(client, parsed, start, end, junk) ==
    /\ Serving(client)
    /\ IF ~parsed
       THEN reply_only(client,
                "Error: Invalid timestamp values. Format: get_events_logs", << >>)
       ELSE send_correlated(client,
                get_in_range(REQUEST_EVENT_LOG, start, end, current_id, junk),
                Message(client, "Requested logs between", << start, end >>))

cmd_get_current_time(client, junk) ==
    /\ Serving(client)
    /\ send_correlated(client, get_current_time(current_id, junk), None)

\* Defect variant of cmd_set_time: a time equal to the latest timestamp is
\* rejected as well.
cmd_set_time_inclusive(client, parsed, new_time, junk) ==
    /\ Serving(client)
    /\ IF ~parsed
       THEN reply_only(client, "Error: Invalid time value. Format: set_time", << >>)
       ELSE IF m_latest_data.timestamp > 0 /\ new_time <= m_latest_data.timestamp
       THEN reply_only(client,
                "Error: Cannot set time before the latest sensor data timestamp",
                m_latest_data.timestamp)
       ELSE send_uncorrelated(client,
                send_value(TIME_SEND, LE32(new_time), current_id, junk),
                "Set custom time to:", new_time)

cmd_set_time(client, parsed, new_time, junk) ==
    /\ Serving(client)
    /\ IF ~parsed
       THEN reply_only(client, "Error: Invalid time value. Format: set_time", << >>)
       ELSE IF m_latest_data.timestamp > 0 /\ new_time < m_latest_data.timestamp
       THEN reply_only(client,
                "Error: Cannot set time before the latest sensor data timestamp",
                m_latest_data.timestamp)
       ELSE send_uncorrelated(client,
                send_value(TIME_SEND, LE32(new_time), current_id, junk),
                "Set custom time to:", new_time)

\* The shared_ptr references to the session of `client` that are held
\* between two steps: the one in the gateway's clients_ and one for every
\* entry of m_request_clients that stores the session.
use_count(client) ==
    (IF client \in clients_ THEN 1 ELSE 0)
    + Cardinality({ k \in DOMAIN m_request_clients :
                      m_request_clients[k] = client })

\* TcpServer::removeClient
removeClient(clients, client) == clients \ {client}

\* ClientSession::stop: the operator's connection ends; the session clears
\* active_, closes its socket and has the gateway drop it from clients_.
session_stop(client) ==
    /\ Serving(client)
    /\ active' = [active EXCEPT ![client] = FALSE]
    /\ clients_' = removeClient(clients_, client)
    /\ UNCHANGED <<current_id, m_request_clients, m_latest_data, m_sensor_data,
                   link, response, pc, units, threadvars>>
    /\ outcome' = None
    /\ delivered' = << >>
    /\ sent' = << >>
    /\ registered' = None

-----------------------------------------------------------------------------
(* The satellite end of the link puts bytes on the line.                   *)

transmit(bytes) ==
    /\ link' = link \o bytes
    /\ UNCHANGED <<current_id, m_request_clients, m_latest_data, m_sensor_data,
                   active, response, pc, units, clients_, threadvars>>
    /\ outcome' = None
    /\ delivered' = << >>
    /\ sent' = << >>
    /\ registered' = None

-----------------------------------------------------------------------------
(* The two threads at the grain of their accesses to what they share: the  *)
(* id generator (mutex, counter), the correlator map and the serial port.  *)
(* A job is what a thread is doing: the io thread a command of an operator, *)
(* the listen thread the handler of the frame it has just accumulated.     *)

Other(thread) == CHOOSE t \in Threads : t # thread

\* The position of a thread inside a job: where it stands, the packet it
\* has built, the id generateID returned to it and the number of that call,
\* whether its access to the map overlapped one of the other thread, and the
\* buffers it still has to pass to write(2).
At(at, job, packet, id, n, raced, todo) ==
    [ at |-> at, job |-> job, packet |-> packet, id |-> id, n |-> n,
      raced |-> raced, todo |-> todo ]

\* update_light / get_current_time / send_current_time build their packet
\* around the id generateID returned.
JobPacket(job, id, junk) ==
    CASE job.kind = "update_light" ->
             send_value(UPDATE_LIGHT, << ToU8(job.value) >>, id, junk).packet
      [] job.kind = "get_current_time" -> get_current_time(id, junk).packet
      [] job.kind = "time_send" ->
             send_value(TIME_SEND, LE32(job.now), id, junk).packet

\* get_current_time stores the client under the id before it sends.
Correlated(job) == job.kind = "get_current_time"

\* What the caller does once the packet is sent.
JobThen(job) ==
    IF job.kind = "update_light"
    THEN Message(job.client, "Light updated to", job.value)
    ELSE None

\* Defect variant of send: one write(2) call per byte.
send_bytewise(message) == [i \in 1..Len(message) |-> << message[i] >>]

\* SerialConnection::send: the buffers passed to write(2), in order.  The
\* whole message goes out in one call.
send(message) == << message >>

\* send_packet_to_altair entered with `packet`: a packet that carries 0xFF
\* takes the thread into generateID again, any other is laid out and handed
\* to SerialConnection::send.
Sending(position, packet) ==
    IF packet.m_respnse_id = RESERVED_ID
    THEN [position EXCEPT !.at = "generateID", !.packet = packet]
    ELSE [position EXCEPT !.at = "write", !.packet = packet,
                          !.todo = send(message_buffer(packet))]

\* What a step of a job leaves alone unless it says otherwise.
JobStep ==
    /\ UNCHANGED <<m_latest_data, m_sensor_data, active, link, response, units,
                   clients_, m_mutex, satvars>>
    /\ outcome' = None

\* The thread takes up a job that starts with a call of generateID.  The
\* bytes of the packet it sent before have left the line.
call_generateID(thread, job) ==
    /\ pc[thread] = Ready
    /\ pc' = [pc EXCEPT ![thread] =
                 At("generateID", job, None, 0, 0, FALSE, << >>)]
    /\ LET OfOther(e) == e.by # thread
       IN  wire' = SelectSeq(wire, OfOther)
    /\ UNCHANGED <<current_id, m_request_clients, mtx, calls>>
    /\ delivered' = << >>
    /\ sent' = << >>
    /\ registered' = None
    /\ JobStep

\* Defect variant of lock_guard: no mutex is taken.
lock_guard_absent(m) == TRUE

\* std::lock_guard<std::mutex> lock(mtx) returns once the mutex is free.
lock_guard(m) == m = "free"

\* generateID: the mutex is taken.
lock(thread) ==
    /\ pc[thread] # Ready
    /\ pc[thread].at = "generateID"
    /\ lock_guard(mtx)
    /\ mtx' = thread
    /\ pc' = [pc EXCEPT ![thread].at = "locked"]
    /\ UNCHANGED <<current_id, m_request_clients, calls, wire>>
    /\ delivered' = << >>
    /\ sent' = << >>
    /\ registered' = None
    /\ JobStep

\* generateID, uint8_t id = current_id++: the counter is read.
fetch(thread) ==
    /\ pc[thread] # Ready
    /\ pc[thread].at = "locked"
    /\ calls' = calls + 1
    /\ pc' = [pc EXCEPT ![thread].at = "fetched",
                        ![thread].id = current_id,
                        ![thread].n = calls + 1]
    /\ UNCHANGED <<current_id, m_request_clients, mtx, wire>>
    /\ delivered' = << >>
    /\ sent' = << >>
    /\ registered' = None
    /\ JobStep

\* generateID, uint8_t id = current_id++: the counter is written.
increment(thread) ==
    /\ pc[thread] # Ready
    /\ pc[thread].at = "fetched"
    /\ current_id' = (pc[thread].id + 1) % 256
    /\ pc' = [pc EXCEPT ![thread].at = "incremented"]
    /\ UNCHANGED <<m_request_clients, mtx, calls, wire>>
    /\ delivered' = << >>
    /\ sent' = << >>
    /\ registered' = None
    /\ JobStep

\* generateID returns: the mutex is released and the caller goes on with
\* the id, building its packet (first call) or putting the id in the packet
\* that carried 0xFF (call inside send_packet_to_altair).
unlock(thread, junk) ==
    /\ pc[thread] # Ready
    /\ pc[thread].at = "incremented"
    /\ mtx' = "free"
    /\ LET here == pc[thread]
           packet == IF here.packet = None
                     THEN JobPacket(here.job, here.id, junk)
                     ELSE [here.packet EXCEPT !.m_respnse_id = here.id]
       IN  pc' = [pc EXCEPT ![thread] =
                     IF here.packet = None /\ Correlated(here.job)
                     THEN [here EXCEPT !.at = "store", !.packet = packet]
                     ELSE IF here.packet = None
                     THEN Sending(here, packet)
                     ELSE [here EXCEPT !.at = "write", !.packet = packet,
                               !.todo = send(message_buffer(packet))]]
    /\ UNCHANGED <<current_id, m_request_clients, calls, wire>>
    /\ delivered' = << >>
    /\ sent' = << >>
    /\ registered' = None
    /\ JobStep

\* The thread is inside an access to m_request_clients.
InsideMap(thread) ==
    pc[thread] # Ready /\ pc[thread].at \in {"storing", "finding"}

\* The thread enters an access to the map at `position`; an access of the
\* other thread that is under way overlaps it.
enter_map(thread, position) ==
    pc' = [t \in Threads |->
             IF t = thread
             THEN [position EXCEPT !.raced = InsideMap(Other(thread))]
             ELSE IF InsideMap(t) THEN [pc[t] EXCEPT !.raced = TRUE]
             ELSE pc[t]]

\* m_request_clients[packet.m_respnse_id] = client begins.
store_begin(thread) ==
    /\ pc[thread] # Ready
    /\ pc[thread].at = "store"
    /\ enter_map(thread, [pc[thread] EXCEPT !.at = "storing"])
    /\ UNCHANGED <<current_id, m_request_clients, mtx, calls, wire>>
    /\ delivered' = << >>
    /\ sent' = << >>
    /\ registered' = None
    /\ JobStep

\* m_request_clients[packet.m_respnse_id] = client ends.  An assignment
\* that overlapped an access of the other thread is a data race: the entry is
\* stored or the map is left as it was.
store_end(thread, stored) ==
    /\ pc[thread] # Ready
    /\ pc[thread].at = "storing"
    /\ stored \/ pc[thread].raced
    /\ LET here == pc[thread]
       IN  /\ IF stored
              THEN /\ m_request_clients' =
                        store_client(m_request_clients,
                                     here.packet.m_respnse_id, here.job.client)
                   /\ registered' =
                        Registration(here.packet.m_respnse_id, here.job.client)
              ELSE /\ UNCHANGED m_request_clients
                   /\ registered' = None
           /\ pc' = [pc EXCEPT ![thread] =
                        Sending([here EXCEPT !.raced = FALSE], here.packet)]
    /\ UNCHANGED <<current_id, mtx, calls, wire>>
    /\ delivered' = << >>
    /\ sent' = << >>
    /\ JobStep

\* One call of write(2) on the serial port.  The terminal driver takes the
\* calls one at a time and puts the bytes of a call on the line together.
write(thread) ==
    /\ pc[thread] # Ready
    /\ pc[thread].at = "write"
    /\ LET here == pc[thread]
           buffer == Head(here.todo)
       IN  /\ wire' = wire \o [i \in 1..Len(buffer) |->
                                 [by |-> thread, byte |-> buffer[i]]]
           /\ IF Tail(here.todo) = << >>
              THEN /\ pc' = [pc EXCEPT ![thread].at = "sent",
                                       ![thread].todo = << >>]
                   /\ sent' = << message_buffer(here.packet) >>
              ELSE /\ pc' = [pc EXCEPT ![thread].todo = Tail(here.todo)]
                   /\ sent' = << >>
    /\ UNCHANGED <<current_id, m_request_clients, mtx, calls>>
    /\ delivered' = << >>
    /\ registered' = None
    /\ JobStep

\* send_packet_to_altair has returned: the caller answers its client, if it
\* has one to answer, and the job is done.
job_done(thread) ==
    /\ pc[thread] # Ready
    /\ pc[thread].at = "sent"
    /\ delivered' = Answer(JobThen(pc[thread].job))
    /\ pc' = [pc EXCEPT ![thread] = Ready]
    /\ UNCHANGED <<current_id, m_request_clients, mtx, calls, wire>>
    /\ sent' = << >>
    /\ registered' = None
    /\ JobStep

\* handle_ack begins: m_request_clients.find(responseId).
find_begin(thread, responseId) ==
    /\ pc[thread] = Ready
    /\ enter_map(thread, At("finding", [kind |-> "ack"], None, responseId, 0,
                             FALSE, << >>))
    /\ UNCHANGED <<current_id, m_request_clients, mtx, calls, wire>>
    /\ delivered' = << >>
    /\ sent' = << >>
    /\ registered' = None
    /\ JobStep

\* handle_ack ends: the client found is answered and its entry erased.  A
\* lookup that overlapped an access of the other thread is a data race: it
\* finds the entry or misses it.
find_end(thread, found) ==
    /\ pc[thread] # Ready
    /\ pc[thread].at = "finding"
    /\ LET responseId == pc[thread].id
       IN  /\ IF pc[thread].raced
              THEN found => responseId \in DOMAIN m_request_clients
              ELSE found <=> responseId \in DOMAIN m_request_clients
           /\ IF found
              THEN /\ delivered' = sendMessage(m_request_clients[responseId],
                                               "Sucess operation", << >>)
                   /\ m_request_clients' =
                         erase_client(m_request_clients, responseId)
              ELSE /\ delivered' = << >>
                   /\ UNCHANGED m_request_clients
    /\ pc' = [pc EXCEPT ![thread] = Ready]
    /\ UNCHANGED <<current_id, mtx, calls, wire>>
    /\ sent' = << >>
    /\ registered' = None
    /\ JobStep

-----------------------------------------------------------------------------
(* The methods of ServerDataManager at the grain of a thread: the call,    *)
(* the mutex taken, the position looked up in the vector, and the vector   *)
(* read or written at that position before the method returns and the     *)
(* lock_guard lets the mutex go.                                           *)

\* What the method `op` returns when it runs on the index `vec` with nothing
\* in between.
IndexResult(op, vec) ==
    CASE op.kind = "insertSensorData" -> insertSensorData_returns(vec, op.data)
      [] op.kind = "getSensorDataByTimestamp" ->
             getSensorDataByTimestamp(vec, op.timestamp)
      [] op.kind = "getSensorDataInRange" ->
             getSensorDataInRange(vec, op.start_time, op.end_time)
      [] op.kind = "getMostRecentData" -> getMostRecentData(vec)
      [] op.kind = "getAllSensorData" -> getAllSensorData(vec)
      [] op.kind = "size" -> size(vec)
      [] op.kind = "clear" -> "void"

\* The index the method `op` leaves when it runs on `vec` with nothing in
\* between.
IndexEffect(op, vec) ==
    CASE op.kind = "insertSensorData" -> insertSensorData(vec, op.data)
      [] op.kind = "clear" -> clear(vec)
      [] OTHER -> vec

\* The first part of a method: what it decides and which positions it finds
\* on the vector as it is now.
locate(op, vec) ==
    CASE op.kind = "insertSensorData" ->
             [pos |-> lower_bound(vec, op.data.timestamp)]
      [] op.kind = "getSensorDataByTimestamp" ->
             [pos |-> lower_bound(vec, op.timestamp)]
      [] op.kind = "getSensorDataInRange" ->
             [ absent |-> \/ vec = << >>
                          \/ op.start_time > vec[Len(vec)].timestamp,
               lower  |-> lower_bound(vec, op.start_time),
               upper  |-> upper_bound(vec, op.end_time) ]
      [] op.kind = "getMostRecentData" -> [absent |-> vec = << >>]
      [] OTHER -> [pos |-> 0]

\* An iterator of the position `pos` used on the vector as it is now: past
\* the end it reads the last element, or a zeroed one from an empty vector.
element(vec, pos) ==
    IF vec = << >> THEN ZeroSensorData
    ELSE IF pos > Len(vec) THEN vec[Len(vec)] ELSE vec[pos]

\* The second part of a method: the vector read or written at the positions
\* found before, and the value returned.
apply(op, found, vec) ==
    CASE op.kind = "insertSensorData" ->
             [ vec |-> IF found.pos <= Len(vec)
                          /\ vec[found.pos].timestamp = op.data.timestamp
                       THEN vec
                       ELSE IF found.pos > Len(vec) THEN Append(vec, op.data)
                       ELSE SubSeq(vec, 1, found.pos - 1) \o << op.data >>
                            \o SubSeq(vec, found.pos, Len(vec)),
               returned |-> TRUE ]
      [] op.kind = "getSensorDataByTimestamp" ->
             [ vec |-> vec,
               returned |-> IF found.pos <= Len(vec)
                               /\ vec[found.pos].timestamp = op.timestamp
                            THEN Some(vec[found.pos]) ELSE nullopt ]
      [] op.kind = "getSensorDataInRange" ->
             [ vec |-> vec,
               returned |-> IF found.absent THEN nullopt
                            ELSE IF found.upper < found.lower
                            THEN [kind |-> "length_error"]
                            ELSE Some([i \in 1..(found.upper - found.lower) |->
                                         element(vec, found.lower + i - 1)]) ]
      [] op.kind = "getMostRecentData" ->
             [ vec |-> vec,
               returned |-> IF found.absent THEN nullopt
                            ELSE Some(element(vec, Len(vec))) ]
      [] op.kind = "getAllSensorData" -> [vec |-> vec, returned |-> vec]
      [] op.kind = "size" -> [vec |-> vec, returned |-> Len(vec)]
      [] op.kind = "clear" -> [vec |-> << >>, returned |-> "void"]

\* What a step inside a method of the index leaves alone.
IndexStep ==
    /\ UNCHANGED <<current_id, m_request_clients, m_latest_data, active, link,
                   response, units, clients_, mtx, calls, wire, satvars>>
    /\ delivered' = << >>
    /\ sent' = << >>
    /\ registered' = None

\* The thread calls the method `op`.
index_call(thread, op) ==
    /\ pc[thread] = Ready
    /\ pc' = [pc EXCEPT ![thread] = [at |-> "index_call", op |-> op]]
    /\ UNCHANGED <<m_sensor_data, m_mutex>>
    /\ outcome' = None
    /\ IndexStep

\* Defect variant of m_mutex_lock_guard: no mutex is taken.
m_mutex_lock_guard_absent(m) == TRUE

\* std::lock_guard<std::mutex> lock(m_mutex) returns once the mutex is free.
m_mutex_lock_guard(m) == m = "free"

\* The method takes the mutex and looks up its positions.
index_locate(thread) ==
    /\ pc[thread] # Ready
    /\ pc[thread].at = "index_call"
    /\ m_mutex_lock_guard(m_mutex)
    /\ m_mutex' = thread
    /\ pc' = [pc EXCEPT ![thread] =
                 [ at |-> "index_located", op |-> pc[thread].op,
                   found |-> locate(pc[thread].op, m_sensor_data) ]]
    /\ UNCHANGED m_sensor_data
    /\ outcome' = None
    /\ IndexStep

\* The method reads or writes the vector, returns and lets the mutex go.
index_return(thread) ==
    /\ pc[thread] # Ready
    /\ pc[thread].at = "index_located"
    /\ LET done == apply(pc[thread].op, pc[thread].found, m_sensor_data)
       IN  /\ m_sensor_data' = done.vec
           /\ outcome' = [kind |-> "index", by |-> thread, op |-> pc[thread].op,
                          returned |-> done.returned]
    /\ m_mutex' = "free"
    /\ pc' = [pc EXCEPT ![thread] = Ready]
    /\ IndexStep

-----------------------------------------------------------------------------
(* Bounds and the inputs the environment draws from                        *)

\* Ids the generator may hand out before the operators stop asking.
MaxIds == 2

\* Readings and events the satellite has stored.
StoreLen == 2

\* Values an uninitialised byte takes.
JunkBytes == {0, 85}

\* The ground's clock, epoch seconds.
ClockValues == {1000}

\* The satellite's stored readings, oldest first.
SensorStore ==
    [i \in 1..StoreLen |->
        [temp |-> 20 + i, humid |-> 45, light |-> 50, mode |-> OK_MODE,
         voltage |-> 1074161254, timestamp |-> 100 + 10 * i]]

\* The satellite's stored events, oldest first.
EventStore ==
    [i \in 1..StoreLen |-> [event |-> 4 * (i % 2), timestamp |-> 100 + 10 * i]]

\* The contiguous runs of a store (what a timestamp range selects).
Slices(store) ==
    { SubSeq(store, a, b) : a \in 1..(Len(store) + 1), b \in 0..Len(store) }

\* Ids the satellite answers under: those the generator has handed out.
ReplyIds == 0..(MaxIds - 1)

\* The listen loop is between two units: nothing accumulated.  An iteration
\* that completes no unit changes the accumulator only, so a request taken
\* in the middle of a unit has the effect of one taken before it; requests
\* are interleaved at the unit boundaries.
Idle == response = << >>

\* The line is quiet: the satellite sends its next burst after the last one
\* was taken in.
Quiet == link = << >> /\ response = << >>

\* The generator may still hand out an id.
IdsLeft == current_id < MaxIds

TypeOK ==
    /\ current_id \in Byte
    /\ DOMAIN m_request_clients \subseteq Byte
    /\ \A k \in DOMAIN m_request_clients : m_request_clients[k] \in Operators
    /\ active \in [Operators -> BOOLEAN]
    /\ \A i \in 1..Len(link) : link[i] \in Byte
    /\ \A i \in 1..Len(response) : response[i] \in Byte
    /\ \A i \in 1..Len(sent) : \A j \in 1..Len(sent[i]) : sent[i][j] \in Byte

\* The state after the AltairServer constructor, with two operators
\* connected and nothing on the line.
Init ==
    /\ current_id = 0
    /\ m_request_clients = << >>
    /\ m_latest_data = ZeroSensorData
    /\ m_sensor_data = << >>
    /\ active = [o \in Operators |-> TRUE]
    /\ link = << >>
    /\ response = << >>
    /\ pc = [t \in Threads |-> Ready]
    /\ outcome = None
    /\ delivered = << >>
    /\ sent = << >>
    /\ registered = None
    /\ units = [kind |-> "none"]
    /\ clients_ = Operators
    /\ mtx = "free"
    /\ calls = 0
    /\ wire = << >>
    /\ m_mutex = "free"
    /\ PoweredOn

-----------------------------------------------------------------------------
(* Spec: the dispatcher between the operators and the satellite.           *)
(* Operators issue correlated requests and one configuration update; the   *)
(* satellite answers with the frame bursts its firmware builds.            *)

Listen ==
    \E now \in ClockValues, junk \in JunkBytes : listen(now, junk)

OperatorRequest ==
    /\ Idle
    /\ \E client \in Operators, junk \in {0} :
        \/ cmd_get_sensor_data(client)
        \/ IdsLeft /\ cmd_get_recent_sensor_data(client, junk)
        \/ IdsLeft /\ \E humidity \in {55, 101} :
              cmd_update_humidity(client, TRUE, humidity, junk)
        \/ IdsLeft /\ \E start \in {100}, end \in {200} :
              cmd_get_sensor_logs(client, TRUE, start, end, junk)
        \/ IdsLeft /\ \E start \in {100}, end \in {200} :
              cmd_get_events_logs(client, TRUE, start, end, junk)
        \/ IdsLeft /\ cmd_get_current_time(client, junk)

OperatorLeaves ==
    /\ Idle
    /\ \E client \in Operators : session_stop(client)

\* The two operators can do the same things, so in Spec the one that leaves
\* is op1: a behaviour in which op2 leaves is one of these with the names
\* exchanged.
OneOperatorLeaves ==
    /\ Idle
    /\ session_stop("op1")

SatelliteReplies ==
    /\ Quiet
    /\ \E id \in ReplyIds :
        \/ \E logs \in Slices(SensorStore) :
              transmit(send_sensor_logs(logs, id, 0))
        \/ \E events \in Slices(EventStore), junk \in {85} :
              transmit(send_event_logs(events, id, junk))
        \/ transmit(send_ack(id))
        \/ transmit(send_nack(id))
        \/ \E now \in ClockValues, junk \in {85} :
              transmit(send_time(id, now, junk))

SatelliteAsync ==
    /\ Quiet
    /\ \/ transmit(send_keep_alive_packet(SensorStore[1]))
       \/ transmit(send_event_packet(EventStore[1]))
       \/ IdsLeft /\ transmit(time_request)

Next ==
    \/ Listen
    \/ OperatorRequest
    \/ OneOperatorLeaves
    \/ SatelliteReplies
    \/ SatelliteAsync

Spec == Init /\ [][Next]_vars

-----------------------------------------------------------------------------
(* SpecCommands: every branch of handle_request over a wide range of       *)
(* arguments, with the satellite's unsolicited frames and acknowledgements.*)

\* Integer arguments: inside, at the edge of and outside the accepted ranges,
\* beyond a byte, and the end mark's value.
IntArgs == {-1, 0, 1, 55, 85, 100, 101, 255, 256, 300}

\* Voltages: 0.0f, 0.1f, about 0.83f (every byte but the top one 0x55),
\* 2.5f, 3.3f and 5.0f.
VoltageArgs == {0, FLOAT_0_1, 1062557013, 1075838976, FLOAT_3_3, 1084227584}

\* Epoch seconds: zero, small, and values whose bytes are the end mark.
WideTimeArgs == {0, 85, 1000, 21845, 1431655765}

\* Values an uninitialised byte takes in this specification.
WideJunk == {0, 85, 255}

\* The arguments a command line yields: any of `args` when the extraction
\* succeeds, one unspecified value when it fails.
Parsed(parsed, args) == IF parsed THEN args ELSE {0}

\* What `int light_value; iss >> light_value;` leaves in the variable when the
\* extraction fails: 0 when the argument is no number, and what the stack
\* held (here 0, 55 or 300) when there is no argument, since nothing is
\* stored then.
Unextracted == {0, 55, 300}

AnyCommand ==
    /\ Idle
    /\ \E client \in Operators, parsed \in BOOLEAN :
        \/ parsed /\ cmd_get_sensor_data(client)
        \/ parsed /\ IdsLeft /\ \E junk \in WideJunk :
              cmd_get_recent_sensor_data(client, junk)
        \/ IdsLeft /\ \E v \in (IF parsed THEN IntArgs ELSE Unextracted) :
              cmd_update_light(client, parsed, v, 85)
        \/ IdsLeft /\ \E v \in Parsed(parsed, IntArgs), junk \in {85} :
              \/ cmd_update_min_temp(client, parsed, v, junk)
              \/ cmd_update_max_temp(client, parsed, v, junk)
              \/ cmd_update_humidity(client, parsed, v, junk)
        \/ IdsLeft /\ \E v \in Parsed(parsed, VoltageArgs), junk \in {85} :
              cmd_update_voltage(client, parsed, v, junk)
        \/ IdsLeft /\ \E start \in Parsed(parsed, WideTimeArgs),
                         end \in Parsed(parsed, WideTimeArgs), junk \in {85} :
              \/ cmd_get_sensor_logs(client, parsed, start, end, junk)
              \/ cmd_get_events_logs(client, parsed, start, end, junk)
        \/ parsed /\ IdsLeft /\ \E junk \in WideJunk :
              cmd_get_current_time(client, junk)
        \/ IdsLeft /\ \E t \in Parsed(parsed, WideTimeArgs), junk \in {85} :
              cmd_set_time(client, parsed, t, junk)

SatelliteAcknowledges ==
    /\ Quiet
    /\ \E id \in ReplyIds :
        \/ transmit(send_ack(id))
        \/ transmit(send_nack(id))

NextCommands ==
    \/ Listen
    \/ AnyCommand
    \/ SatelliteAcknowledges
    \/ SatelliteAsync

SpecCommands == Init /\ [][NextCommands]_vars

-----------------------------------------------------------------------------
(* SpecWrap: the id counter taken through its whole cycle.  One operator   *)
(* keeps sending update_light, which uses up one id per command;           *)
(* correlated requests and the satellite's TIME_REQUEST come when the      *)
(* counter stands at one of WrapIds.                                       *)

\* Counter values at which correlated requests are issued: one ordinary id
\* and the reserved one.
WrapIds == {1, 255}

\* Ids the satellite answers under in this specification: the ordinary id of
\* WrapIds and the id that replaces 0xFF.
WrapReplyIds == {0, 1}

WrapUpdate ==
    /\ Idle
    /\ cmd_update_light("op1", TRUE, 50, 0)

WrapRequest ==
    /\ Idle
    /\ current_id \in WrapIds
    /\ \E client \in Operators :
        \/ cmd_get_current_time(client, 0)
        \/ cmd_get_sensor_logs(client, TRUE, 100, 200, 0)

WrapReplies ==
    /\ Quiet
    /\ \E id \in WrapReplyIds :
        \/ transmit(send_ack(id))
        \/ transmit(send_time(id, 1000, 85))
        \/ transmit(send_sensor_logs(<< SensorStore[1] >>, id, 0))

WrapTimeRequest ==
    /\ Quiet
    /\ current_id \in WrapIds
    /\ transmit(time_request)

Substitute ==
    \E thread \in Threads : substitute_id(thread)

NextWrap ==
    \/ Listen
    \/ WrapUpdate
    \/ WrapRequest
    \/ WrapReplies
    \/ WrapTimeRequest
    \/ Substitute

SpecWrap == Init /\ [][NextWrap]_vars

-----------------------------------------------------------------------------
(* SpecReader: the listen loop fed with whole byte streams.  A stream is   *)
(* chosen at the start and recorded in `units`; the loop then takes it in   *)
(* byte by byte.                                                           *)

\* Debug lines: "Pot error\r\n" as the firmware prints it, and the shortest
\* line that is printed, whose one letter has the end mark's value ("U\n").
TextLines ==
    { << 80, 111, 116, 32, 101, 114, 114, 111, 114, 13, 10 >>,
      << 85, 10 >> }

\* Declared lengths of the binary frame.
FrameLengths == 5..255

\* The value every payload byte of the frame has: zero, the end mark, the
\* line feed.
PayloadBytes == {0, END_MARK, LINE_FEED}

\* Bytes that follow the header of a frame whose end mark never comes.
FloodLen == 300

\* A frame of declared length len as the firmware's send_message lays it out:
\* an ACK under an id nobody waits for.
FrameOf(len, fill) ==
    send_message(len, ACK, 99, 0, [i \in 1..(len - PACKET_HEADER_SIZE) |-> fill])

\* text line, binary frame, text line
MixedStreams ==
    { [kind |-> "mixed", first |-> t1, frame |-> FrameOf(len, fill), last |-> t2] :
        t1 \in TextLines, t2 \in TextLines,
        len \in FrameLengths, fill \in PayloadBytes }

\* The header of a 200-byte frame, FloodLen bytes none of which is the end
\* mark, then a complete ACK frame.
FloodStreams ==
    { [kind |-> "flood", first |-> << >>,
       frame |-> << 200, ACK, 99, 0 >> \o [i \in 1..FloodLen |-> fill],
       last |-> send_ack(0)] : fill \in {0, 7} }

StreamOf(u) == u.first \o u.frame \o u.last

InitReader ==
    /\ units \in MixedStreams \cup FloodStreams
    /\ link = StreamOf(units)
    /\ current_id = 0
    /\ m_request_clients = << >>
    /\ m_latest_data = ZeroSensorData
    /\ m_sensor_data = << >>
    /\ active = [o \in Operators |-> TRUE]
    /\ response = << >>
    /\ pc = [t \in Threads |-> Ready]
    /\ outcome = None
    /\ delivered = << >>
    /\ sent = << >>
    /\ registered = None
    /\ clients_ = Operators
    /\ mtx = "free"
    /\ calls = 0
    /\ wire = << >>
    /\ m_mutex = "free"
    /\ PoweredOn

NextReader == Listen

SpecReader == InitReader /\ [][NextReader]_vars

-----------------------------------------------------------------------------
(* SpecFrames: response frames of every type and shape, under ids that are *)
(* pending, were pending or never were, while operators come to have       *)
(* requests pending and leave.                                             *)

\* Ids the frames carry: those the generator hands out and one it never
\* reaches here.
FrameIds == ReplyIds \cup {99}

\* A frame of declared length 9 as send_message lays it out: four payload
\* bytes, the end mark at offset 8.
NineByteFrame(type, id) == send_message(9, type, id, 0, << 0, 0, 0, 0 >>)

\* A frame that declares 5 bytes and carries two more before its end mark.
OverlongFrame(type, id) == << 5, type, id, 0, 7, 7, END_MARK >>

\* A frame that declares, and has, fewer bytes than a header.
ShortFrame == << 2, END_MARK >>

\* Types the 9-byte and the overlong frames carry: terminal responses whose
\* handlers read no payload.
OddFrameTypes == {ACK, TOTAL_LOGS, EVENT_LOG_END}

FramesRequest ==
    /\ Idle
    /\ IdsLeft
    /\ \E client \in Operators :
        \/ cmd_get_current_time(client, 0)
        \/ cmd_get_sensor_logs(client, TRUE, 100, 200, 0)
        \/ cmd_get_events_logs(client, TRUE, 100, 200, 0)

FramesWellFormed ==
    /\ Quiet
    /\ \E id \in FrameIds :
        \/ transmit(send_sensor_logs(<< SensorStore[1] >>, id, 0))
        \/ transmit(send_event_logs(<< EventStore[1] >>, id, 85))
        \/ transmit(send_ack(id))
        \/ transmit(send_nack(id))
        \/ transmit(send_time(id, 1000, 85))

FramesOdd ==
    /\ Quiet
    /\ \/ \E id \in FrameIds, type \in OddFrameTypes :
              \/ transmit(NineByteFrame(type, id))
              \/ transmit(OverlongFrame(type, id))
       \/ transmit(ShortFrame)

FramesUnsolicited ==
    /\ Quiet
    /\ \/ transmit(send_keep_alive_packet(SensorStore[2]))
       \/ transmit(send_event_packet(EventStore[1]))

NextFrames ==
    \/ Listen
    \/ FramesRequest
    \/ OperatorLeaves
    \/ FramesWellFormed
    \/ FramesOdd
    \/ FramesUnsolicited

SpecFrames == Init /\ [][NextFrames]_vars

-----------------------------------------------------------------------------
(* SpecIndex: the sensor index under any sequence of insertSensorData and  *)
(* clear calls.                                                            *)

\* Timestamps of the readings inserted: 1..MaxStamp.
MaxStamp == 4

\* The readings inserted: every timestamp with two different temperatures.
IndexReadings ==
    { [temp |-> t, humid |-> 45, light |-> 50, mode |-> OK_MODE,
       voltage |-> 1074161254, timestamp |-> ts] :
        t \in {20, 21}, ts \in 1..MaxStamp }

\* What a call on the index leaves alone.
IndexOnly ==
    /\ UNCHANGED <<current_id, m_request_clients, m_latest_data, active, link,
                   response, pc, units, clients_, threadvars>>
    /\ delivered' = << >>
    /\ sent' = << >>
    /\ registered' = None

IndexInsert ==
    \E data \in IndexReadings :
        /\ m_sensor_data' = insertSensorData(m_sensor_data, data)
        /\ outcome' = [kind |-> "insert", data |-> data,
                       returned |-> insertSensorData_returns(m_sensor_data, data)]
        /\ IndexOnly

\* The bounds of the ranges asked for: from below the first timestamp to
\* above the last.
RangeBounds == 0..(MaxStamp + 1)

IndexRange ==
    \E start_time \in RangeBounds, end_time \in RangeBounds :
        /\ outcome' = [kind |-> "range", start_time |-> start_time,
                       end_time |-> end_time,
                       returned |-> getSensorDataInRange(m_sensor_data,
                                                         start_time, end_time)]
        /\ UNCHANGED m_sensor_data
        /\ IndexOnly

IndexClear ==
    /\ m_sensor_data' = clear(m_sensor_data)
    /\ outcome' = [kind |-> "clear"]
    /\ IndexOnly

NextIndex ==
    \/ IndexInsert
    \/ IndexClear
    \/ IndexRange

SpecIndex == Init /\ [][NextIndex]_vars

-----------------------------------------------------------------------------
(* SpecIds: the id generator and the serial port shared by the two         *)
(* threads.  The io thread serves update_light commands, the listen thread *)
(* answers TIME_REQUEST frames; each step of generateID and each write(2)  *)
(* call is a step of its own.                                              *)

\* generateID calls after which no new job is taken up: the counter goes
\* round once and two ids further.
MaxCalls == 258

CallsLeft == calls < MaxCalls

IdsCommand ==
    /\ CallsLeft
    /\ call_generateID("io", [kind |-> "update_light", client |-> "op1",
                              value |-> 50])

\* The call counts at which a TIME_REQUEST frame comes in: at the start and
\* around the wrap of the counter.
TimeRequestCalls == {0, 1, 254, 255, 256}

IdsTimeRequest ==
    /\ CallsLeft
    /\ calls \in TimeRequestCalls
    /\ call_generateID("listen", [kind |-> "time_send", now |-> 1000])

IdsGenerate ==
    \E thread \in Threads :
        \/ lock(thread)
        \/ fetch(thread)
        \/ increment(thread)
        \/ unlock(thread, 0)

IdsWrite == \E thread \in Threads : write(thread)

IdsDone == \E thread \in Threads : job_done(thread)

NextIds ==
    \/ IdsCommand
    \/ IdsTimeRequest
    \/ IdsGenerate
    \/ IdsWrite
    \/ IdsDone

SpecIds == Init /\ [][NextIds]_vars

-----------------------------------------------------------------------------
(* SpecThreads: the correlator map and the serial port shared by the two   *)
(* threads.  The io thread serves get_current_time commands, the listen    *)
(* thread handles ACK frames and answers TIME_REQUEST frames.              *)

MapCommand ==
    /\ IdsLeft
    /\ \E client \in Operators :
          call_generateID("io", [kind |-> "get_current_time",
                                 client |-> client])

MapStore ==
    \/ store_begin("io")
    \/ \E stored \in BOOLEAN : store_end("io", stored)

MapFind ==
    \/ \E responseId \in ReplyIds : find_begin("listen", responseId)
    \/ \E found \in BOOLEAN : find_end("listen", found)

MapTimeRequest ==
    /\ IdsLeft
    /\ call_generateID("listen", [kind |-> "time_send", now |-> 1000])

NextThreads ==
    \/ MapCommand
    \/ MapTimeRequest
    \/ IdsGenerate
    \/ MapStore
    \/ MapFind
    \/ IdsWrite
    \/ IdsDone

SpecThreads == Init /\ [][NextThreads]_vars

-----------------------------------------------------------------------------
(* SpecIndexThreads: the index shared by the listen thread, which inserts  *)
(* the readings of SENSOR_LOG frames, and another thread that reads and    *)
(* clears it.                                                              *)

\* What the other thread calls.
IndexReads ==
    { [kind |-> "getSensorDataByTimestamp", timestamp |-> ts] :
        ts \in 1..MaxStamp }
    \cup { [kind |-> "getSensorDataInRange", start_time |-> a, end_time |-> b] :
             a \in {0, 2}, b \in {1, 3} }
    \cup { [kind |-> k] :
             k \in {"getMostRecentData", "getAllSensorData", "size", "clear"} }

ListenInserts ==
    \E data \in IndexReadings :
        index_call("listen", [kind |-> "insertSensorData", data |-> data])

OtherCalls ==
    \E op \in IndexReads : index_call("io", op)

IndexLocates == \E thread \in Threads : index_locate(thread)

IndexReturns == \E thread \in Threads : index_return(thread)

NextIndexThreads ==
    \/ ListenInserts
    \/ OtherCalls
    \/ IndexLocates
    \/ IndexReturns

SpecIndexThreads == Init /\ [][NextIndexThreads]_vars

-----------------------------------------------------------------------------
(* SpecCodec: the two codecs as functions.  The satellite builds a frame   *)
(* for a record, and the ground parses the frame into a local record whose *)
(* fields hold whatever the stack held before.                             *)

\* Timestamps and voltages whose bytes include 0x00, END_MARK, LINE_FEED and
\* 0xFF, up to the largest the 32-bit integers of the checker hold.
CodecWords == {0, END_MARK, 1000, LINE_FEED * 256 + 255, FLOAT_3_3, 2147483647}

CodecReadings ==
    [ temp : {0, 255}, humid : {END_MARK}, light : {50},
      mode : {ERROR_MODE, OK_MODE},
      voltage : {FLOAT_0_1, 2147483647}, timestamp : CodecWords ]

\* AltairEvent: EVENT_OK_TO_ERROR .. EVENT_ERROR_TO_SAFE
CodecEvents == [event : 0..7, timestamp : CodecWords]

\* What the local record of the ground holds before the parse.
CodecJunk == {0, 7}

CodecOnly == IndexOnly /\ UNCHANGED m_sensor_data

\* The SENSOR_LOG frame of send_sensor_logs for one reading.
SensorLogFrame(d, id) == SubSeq(send_sensor_logs(<< d >>, id, 0), 1, 17)

CodecSensorLog ==
    \E d \in CodecReadings, id \in {0, RESERVED_ID}, junk \in CodecJunk :
        LET frame   == SensorLogFrame(d, id)
            decoded == parse_sensor_data(frame,
                           [ZeroSensorData EXCEPT !.timestamp = junk,
                                                  !.temp = junk])
        IN  /\ outcome' = [ kind |-> "sensor_log_codec", record |-> d,
                            frame |-> frame, decoded |-> decoded,
                            again |-> SensorLogFrame(decoded, frame[3]) ]
            /\ CodecOnly

CodecBeacon ==
    \E d \in CodecReadings, junk \in CodecJunk :
        LET frame   == send_keep_alive_packet(d)
            decoded == parse_sensor_data(frame,
                           [ZeroSensorData EXCEPT !.timestamp = junk,
                                                  !.temp = junk])
        IN  /\ outcome' = [ kind |-> "beacon_codec", record |-> d,
                            frame |-> frame, decoded |-> decoded,
                            again |-> send_keep_alive_packet(decoded) ]
            /\ CodecOnly

CodecEvent ==
    \E e \in CodecEvents, junk \in CodecJunk :
        LET frame   == send_event_packet(e)
            decoded == parse_event_data(frame,
                           [event |-> junk, timestamp |-> junk])
        IN  /\ outcome' = [ kind |-> "event_codec", record |-> e,
                            frame |-> frame, decoded |-> decoded,
                            again |-> send_event_packet(decoded) ]
            /\ CodecOnly

NextCodec == CodecSensorLog \/ CodecBeacon \/ CodecEvent

SpecCodec == Init /\ [][NextCodec]_vars

-----------------------------------------------------------------------------
(* SpecArguments: one command line, chosen at the start and recorded in    *)
(* `units`, is handled any number of times while beacons arrive.           *)

IntCommands ==
    {"update_light", "update_min_temp", "update_max_temp", "update_humidity"}

LogCommands == {"get_sensor_logs", "get_events_logs"}

\* A command line: who sent it, the command, whether the extraction of its
\* arguments succeeded, and the values the extraction left.
Line(client, command, parsed, value, second) ==
    [ kind |-> "line", client |-> client, command |-> command,
      parsed |-> parsed, value |-> value, second |-> second ]

ArgumentLines ==
    UNION { { Line(client, command, TRUE, v, 0) :
                command \in IntCommands, v \in IntArgs }
            \cup { Line(client, "update_light", FALSE, v, 0) :
                     v \in Unextracted }
            \cup { Line(client, command, FALSE, 0, 0) :
                     command \in (IntCommands \ {"update_light"})
                                 \cup LogCommands
                                 \cup {"update_voltage", "set_time"} }
            \cup { Line(client, "update_voltage", TRUE, v, 0) :
                     v \in VoltageArgs }
            \cup { Line(client, command, TRUE, start, end) :
                     command \in LogCommands, start \in {100, 1000},
                     end \in {85, 200} }
            \cup { Line(client, "set_time", TRUE, t, 0) : t \in WideTimeArgs }
          : client \in Operators }

\* AltairServer::handle_request: the branch of the command of the line.
handle_request(l) ==
    CASE l.command = "update_light" ->
             cmd_update_light(l.client, l.parsed, l.value, 85)
      [] l.command = "update_min_temp" ->
             cmd_update_min_temp(l.client, l.parsed, l.value, 85)
      [] l.command = "update_max_temp" ->
             cmd_update_max_temp(l.client, l.parsed, l.value, 85)
      [] l.command = "update_humidity" ->
             cmd_update_humidity(l.client, l.parsed, l.value, 85)
      [] l.command = "update_voltage" ->
             cmd_update_voltage(l.client, l.parsed, l.value, 85)
      [] l.command = "get_sensor_logs" ->
             cmd_get_sensor_logs(l.client, l.parsed, l.value, l.second, 85)
      [] l.command = "get_events_logs" ->
             cmd_get_events_logs(l.client, l.parsed, l.value, l.second, 85)
      [] l.command = "set_time" ->
             cmd_set_time(l.client, l.parsed, l.value, 85)

ArgumentsCommand == Idle /\ IdsLeft /\ handle_request(units)

\* Beacons with the timestamps 110 and 1000.
ArgumentsBeacon ==
    /\ Quiet
    /\ \E ts \in {SensorStore[1].timestamp, 1000} :
          transmit(send_keep_alive_packet(
                       [SensorStore[1] EXCEPT !.timestamp = ts]))

InitArguments ==
    /\ units \in ArgumentLines
    /\ link = << >>
    /\ current_id = 0
    /\ m_request_clients = << >>
    /\ m_latest_data = ZeroSensorData
    /\ m_sensor_data = << >>
    /\ active = [o \in Operators |-> TRUE]
    /\ response = << >>
    /\ pc = [t \in Threads |-> Ready]
    /\ outcome = None
    /\ delivered = << >>
    /\ sent = << >>
    /\ registered = None
    /\ clients_ = Operators
    /\ mtx = "free"
    /\ calls = 0
    /\ wire = << >>
    /\ m_mutex = "free"
    /\ PoweredOn

NextArguments == Listen \/ ArgumentsCommand \/ ArgumentsBeacon

SpecArguments == InitArguments /\ [][NextArguments]_vars

-----------------------------------------------------------------------------
(* SpecSensorLogs: the satellite handles one REQUEST_SENSOR_LOGS command.  *)
(* The log files, the command and whether the first file opens are chosen  *)
(* at the start and recorded in `units`.                                   *)

MAX_LOGS == 10

\* Seconds in a day of the model's calendar: extract_file_name_from_timestamp
\* names a file after the day of the timestamp.
DayLen == 12

extract_file_name_from_timestamp(timestamp) == timestamp \div DayLen

\* get_file_index: the first slot of file_names with that name, or -1.
get_file_index(files, file_name) ==
    IF \E i \in 1..Len(files) : files[i].name = file_name
    THEN CHOOSE i \in 1..Len(files) :
            /\ files[i].name = file_name
            /\ \A j \in 1..(i - 1) : files[j].name # file_name
    ELSE -1

\* The loop of read_data_from_file over the records of an open file: it
\* stops at the first record after timestamp_end, or when max_entries
\* records are in the buffer.
RECURSIVE read_records(_, _, _, _, _)
read_records(records, timestamp_start, timestamp_end, max_entries, buffer) ==
    IF records = << >> THEN buffer
    ELSE LET data == Head(records)
         IN  IF data.timestamp > timestamp_end THEN buffer
             ELSE IF data.timestamp >= timestamp_start
             THEN IF Len(buffer) + 1 >= max_entries
                  THEN Append(buffer, data)
                  ELSE read_records(Tail(records), timestamp_start,
                                    timestamp_end, max_entries,
                                    Append(buffer, data))
             ELSE read_records(Tail(records), timestamp_start, timestamp_end,
                               max_entries, buffer)

\* read_data_from_file: nothing is read from a file that does not open.
read_data_from_file(file, timestamp_start, timestamp_end, max_entries) ==
    IF file.opens
    THEN read_records(file.records, timestamp_start, timestamp_end,
                      max_entries, << >>)
    ELSE << >>

\* Defect variant of extract_data_between_timestamp: the second file is read
\* with the whole of max_entries.
extract_data_between_timestamp_twice(files, timestamp_start, timestamp_end, max_entries) ==
    IF timestamp_end < timestamp_start \/ max_entries = 0
    THEN [status |-> -1, entries |-> << >>]
    ELSE LET idx_start == get_file_index(files,
                              extract_file_name_from_timestamp(timestamp_start))
             idx_end   == get_file_index(files,
                              extract_file_name_from_timestamp(timestamp_end))
         IN  IF idx_start < 0 \/ idx_end < 0
             THEN [status |-> -3, entries |-> << >>]
             ELSE LET entries ==
                        IF idx_start = idx_end
                        THEN read_data_from_file(files[idx_start],
                                 timestamp_start, timestamp_end, max_entries)
                        ELSE LET entries_1 ==
                                    read_data_from_file(files[idx_start],
                                        timestamp_start, 2147483647,
                                        max_entries)
                             IN  IF Len(entries_1) < max_entries
                                 THEN entries_1 \o
                                      read_data_from_file(files[idx_end], 0,
                                          timestamp_end, max_entries)
                                 ELSE entries_1
                  IN  [ status  |-> IF Len(entries) < max_entries
                                    THEN 1 ELSE 0,
                        entries |-> entries ]

\* extract_data_between_timestamp: the status and the entries read.  The
\* first file is read up to the largest timestamp, the second from 0.
extract_data_between_timestamp(files, timestamp_start, timestamp_end, max_entries) ==
    IF timestamp_end < timestamp_start \/ max_entries = 0
    THEN [status |-> -1, entries |-> << >>]
    ELSE LET idx_start == get_file_index(files,
                              extract_file_name_from_timestamp(timestamp_start))
             idx_end   == get_file_index(files,
                              extract_file_name_from_timestamp(timestamp_end))
         IN  IF idx_start < 0 \/ idx_end < 0
             THEN [status |-> -3, entries |-> << >>]
             ELSE LET entries ==
                        IF idx_start = idx_end
                        THEN read_data_from_file(files[idx_start],
                                 timestamp_start, timestamp_end, max_entries)
                        ELSE LET entries_1 ==
                                    read_data_from_file(files[idx_start],
                                        timestamp_start, 2147483647,
                                        max_entries)
                             IN  IF Len(entries_1) < max_entries
                                 THEN entries_1 \o
                                      read_data_from_file(files[idx_end], 0,
                                          timestamp_end,
                                          max_entries - Len(entries_1))
                                 ELSE entries_1
                  IN  [ status  |-> IF Len(entries) < max_entries
                                    THEN 1 ELSE 0,
                        entries |-> entries ]

\* wrap_message: the fields of the command as the handler sees them.
wrap_message(message) ==
    [ data_len     |-> message[1],
      packetType   |-> message[2],
      m_respnse_id |-> message[3],
      checksum     |-> message[4],
      buffer       |-> SubSeq(message, 5, message[1] - 1) ]

\* handle_request_sensor_log: the bytes it hands to Queue_enque.
handle_request_sensor_log(files, packet) ==
    LET start_timestamp == ReadLE32(packet.buffer, 1)
        end_timestamp   == ReadLE32(packet.buffer, 5)
        res == extract_data_between_timestamp(files, start_timestamp,
                                              end_timestamp, MAX_LOGS)
    IN  IF res.status >= 0
        THEN send_sensor_logs(res.entries, packet.m_respnse_id, res.status)
        ELSE send_nack(packet.m_respnse_id)

\* The log file of the day `day` with `count` records, one a second from the
\* start of the day.
LogFile(day, count, opens) ==
    [ name    |-> day,
      opens   |-> opens,
      records |-> [i \in 1..count |->
                     [SensorStore[1] EXCEPT !.timestamp = day * DayLen + i - 1,
                                            !.temp = 20 + i]] ]

\* Three days; each has no file, a file of 4 records or one of 11.  The
\* file of the first day may fail to open.
LogStores ==
    { [i \in 1..Len(days) |->
          LogFile(days[i], counts[days[i]], days[i] # 0 \/ opens)] :
        days \in {<< >>, <<0>>, <<1>>, <<0, 1>>, <<1, 2>>, <<0, 2>>,
                  <<0, 1, 2>>, <<2, 0, 1>>},
        counts \in [0..2 -> {4, 11}],
        opens \in BOOLEAN }

RequestTimes == {0, 2, 5, 11, 12, 14, 23, 24, 30, 35}

SensorLogRequests ==
    { [ kind    |-> "request", files |-> files,
        start   |-> start, end |-> end,
        message |-> message_buffer(
                        get_in_range(REQUEST_SENSOR_LOGS, start, end, id,
                                     85).packet) ] :
        files \in LogStores, start \in RequestTimes, end \in RequestTimes,
        id \in {7} }

InitSensorLogs ==
    /\ units \in SensorLogRequests
    /\ link = << >>
    /\ current_id = 0
    /\ m_request_clients = << >>
    /\ m_latest_data = ZeroSensorData
    /\ m_sensor_data = << >>
    /\ active = [o \in Operators |-> TRUE]
    /\ response = << >>
    /\ pc = [t \in Threads |-> Ready]
    /\ outcome = None
    /\ delivered = << >>
    /\ sent = << >>
    /\ registered = None
    /\ clients_ = Operators
    /\ mtx = "free"
    /\ calls = 0
    /\ wire = << >>
    /\ m_mutex = "free"
    /\ PoweredOn

\* extract_event_data_between_timestamp: the status and the events read
\* from the event file, which holds the events in the order they were
\* written.
extract_event_data_between_timestamp(file, timestamp_start, timestamp_end, max_entries) ==
    IF timestamp_end < timestamp_start \/ max_entries = 0
    THEN [status |-> -1, entries |-> << >>]
    ELSE IF ~file.opens
    THEN [status |-> -2, entries |-> << >>]
    ELSE LET entries == read_records(file.records, timestamp_start,
                                     timestamp_end, max_entries, << >>)
         IN  [ status  |-> IF Len(entries) < max_entries THEN 1 ELSE 0,
               entries |-> entries ]

\* handle_request_event_log: the bytes it hands to Queue_enque.
handle_request_event_log(file, packet, junk) ==
    LET event_start_timestamp == ReadLE32(packet.buffer, 1)
        event_end_timestamp   == ReadLE32(packet.buffer, 5)
        event_res == extract_event_data_between_timestamp(file,
                         event_start_timestamp, event_end_timestamp, MAX_LOGS)
    IN  IF event_res.status >= 0
        THEN send_event_logs(event_res.entries, packet.m_respnse_id, junk)
        ELSE send_nack(packet.m_respnse_id)

validate_percentage_value(value) == value <= 100

\* The UpdateSetting that update_setting_and_notify builds: `nbytes` bytes of
\* the payload under the attribute.
UpdateSetting(buffer, nbytes, attribute) ==
    [update_attribute |-> attribute, buffer |-> SubSeq(buffer, 1, nbytes)]

\* What a handler does apart from reading files: the bytes it hands to
\* Queue_enque, the setting it puts on the two limits queues before its ACK,
\* and the time it sets the clock to (<< >> when it leaves the clock).
Handled(frames, setting, time) ==
    [frames |-> frames, setting |-> setting, time |-> time]

handle_get_clock(packet) ==
    Handled(send_ack(packet.m_respnse_id), None,
            << ReadLE32(packet.buffer, 1) >>)

\* handle_update_min_temp, handle_update_max_temp, handle_update_humidity and
\* handle_update_light: the four handlers differ in the attribute only.
handle_update_percentage(packet, attribute) ==
    IF ~validate_percentage_value(packet.buffer[1])
    THEN Handled(send_nack(packet.m_respnse_id), None, << >>)
    ELSE Handled(send_ack(packet.m_respnse_id),
                 UpdateSetting(packet.buffer, 1, attribute), << >>)

handle_update_voltage(packet) ==
    Handled(send_ack(packet.m_respnse_id),
            UpdateSetting(packet.buffer, 4, "UPDATE_VOLTAGE_LIMIT"), << >>)

handle_request_get_time(packet, now, junk) ==
    Handled(send_time(packet.m_respnse_id, now, junk), None, << >>)

\* altair_message_handler: the switch over the packet type.  `files` are the
\* sensor log files, `events` is the event file, `now` is get_timestamp().
altair_message_handler(files, events, now, junk, message) ==
    LET packet == wrap_message(message)
        type   == packet.packetType
    IN  CASE type = TIME_SEND -> handle_get_clock(packet)
          [] type = UPDATE_MIN_TEMP ->
                handle_update_percentage(packet, "UPDATE_MIN_TEMP_LIMIT")
          [] type = UPDATE_MAX_TEMP ->
                handle_update_percentage(packet, "UPDATE_MAX_TEMP_LIMIT")
          [] type = UPDATE_HUMIDITY ->
                handle_update_percentage(packet, "UPDATE_HUMIDITY_LIMIT")
          [] type = UPDATE_VOLTAGE -> handle_update_voltage(packet)
          [] type = UPDATE_LIGHT ->
                handle_update_percentage(packet, "UPDATE_LIGHT_LIMIT")
          [] type = REQUEST_SENSOR_LOGS ->
                Handled(handle_request_sensor_log(files, packet), None, << >>)
          [] type = REQUEST_EVENT_LOG ->
                Handled(handle_request_event_log(events, packet, junk),
                        None, << >>)
          [] type = REQUEST_CURRENT_TIME ->
                handle_request_get_time(packet, now, junk)
          [] OTHER -> Handled(<< >>, None, << >>)

\* The handler takes the command of `units`.
SensorLogsHandled ==
    /\ outcome = None
    /\ outcome' = [ kind |-> "request_sensor_log",
                    id |-> wrap_message(units.message).m_respnse_id,
                    enqueued |->
                        altair_message_handler(units.files, << >>, 0, 0,
                                               units.message).frames ]
    /\ CodecOnly

NextSensorLogs == SensorLogsHandled

SpecSensorLogs == InitSensorLogs /\ [][NextSensorLogs]_vars

-----------------------------------------------------------------------------
(* Properties                                                              *)

\* The frame the last iteration of listen handed to handle_response, as the
\* handlers see it; << >> when it handed none.
Dispatched(o) ==
    IF o.kind = "frame" /\ Len(o.bytes) >= PACKET_HEADER_SIZE
    THEN Compensated(o.bytes) ELSE << >>

\* The one message a handler sent to a client.
OneMessage(client, text) ==
    /\ Len(delivered') = 1
    /\ delivered'[1].to = client
    /\ delivered'[1].text = text

TerminalTypes == {ACK, NACK, TOTAL_LOGS, EVENT_LOG_END, RESPONSE_CURRENT_TIME}

UpdateTypes ==
    {UPDATE_HUMIDITY, UPDATE_LIGHT, UPDATE_MIN_TEMP, UPDATE_MAX_TEMP,
     UPDATE_VOLTAGE}

\* C1: while a connected operator is stored under id K, each SENSOR_LOG frame
\* carrying K, taken from the head of the link, delivers exactly one
\* "Sensor log data" message holding that frame's reading to that operator and
\* keeps the entry; the TOTAL_LOGS frame carrying K delivers exactly
\* "Completed retrieval of sensor logs." to that operator and removes the
\* entry.  Frames are handled one at a time in link order, so the messages
\* follow the order of the frames and the completion follows them all.
C1_SensorLogsStreamedThenCompleted ==
    [][ \A K \in DOMAIN m_request_clients :
          LET o == m_request_clients[K]
              r == Dispatched(outcome')
          IN  (active[o] /\ r # << >> /\ r[3] = K) =>
                /\ link # << >> /\ link' = Tail(link)
                /\ r[2] = SENSOR_LOG =>
                     /\ OneMessage(o, "Sensor log data")
                     /\ delivered'[1].data = parse_sensor_data(r, ZeroSensorData)
                     /\ K \in DOMAIN m_request_clients'
                     /\ m_request_clients'[K] = o
                /\ r[2] = TOTAL_LOGS =>
                     /\ OneMessage(o, "Completed retrieval of sensor logs.")
                     /\ K \notin DOMAIN m_request_clients'
      ]_vars

\* C1 witness: the second stored reading has just been streamed to the
\* operator stored under the frame's id, and the entry is still there.
C1_Witness ==
    LET r == Dispatched(outcome)
    IN  /\ r # << >>
        /\ r[2] = SENSOR_LOG
        /\ r[3] \in DOMAIN m_request_clients
        /\ Len(delivered) = 1
        /\ delivered[1].to = m_request_clients[r[3]]
        /\ delivered[1].text = "Sensor log data"
        /\ delivered[1].data.timestamp = SensorStore[2].timestamp
        /\ Len(m_sensor_data) = 2

\* C2 (as the specification states it): a configuration update that sends
\* its packet under id K leaves the issuing operator stored under K.
C2_UpdateRecordsOperator ==
    [][ \A client \in Operators :
          ( /\ sent' # << >>
            /\ sent'[1][2] \in UpdateTypes
            /\ delivered' # << >>
            /\ delivered'[1].to = client )
          => /\ sent'[1][3] \in DOMAIN m_request_clients'
             /\ m_request_clients'[sent'[1][3]] = client
      ]_vars

\* C3: a terminal response carrying K that delivers a message finds K stored
\* and delivers to the operator stored under it; every terminal response
\* carrying a stored K removes the entry; a frame carrying an id that is not
\* stored delivers nothing; and an id becomes stored only by a registration.
C3_AtMostOneTerminalResponse ==
    [][ /\ LET r == Dispatched(outcome')
           IN  r # << >> =>
                 /\ (r[2] \in TerminalTypes /\ delivered' # << >>) =>
                       /\ r[3] \in DOMAIN m_request_clients
                       /\ Len(delivered') = 1
                       /\ delivered'[1].to = m_request_clients[r[3]]
                 /\ r[2] \in TerminalTypes =>
                       r[3] \notin DOMAIN m_request_clients'
                 /\ r[3] \notin DOMAIN m_request_clients => delivered' = << >>
        /\ \A K \in DOMAIN m_request_clients' :
              K \notin DOMAIN m_request_clients =>
                 /\ registered'.kind = "registered"
                 /\ registered'.id = K
      ]_vars

\* C3 witness: the RESPONSE_CURRENT_TIME frame just handled answered an
\* operator and its id is no longer stored.
C3_Witness ==
    LET r == Dispatched(outcome)
    IN  /\ r # << >>
        /\ r[2] = RESPONSE_CURRENT_TIME
        /\ Len(delivered) = 1
        /\ delivered[1].text = "Current time"
        /\ r[3] \notin DOMAIN m_request_clients

\* C8: every byte sequence the ground hands to the connection has at least
\* five bytes, as many bytes as its first byte says, and ends with 0x55.
C8_SentPacketsWellFormed ==
    \A i \in 1..Len(sent) :
        /\ Len(sent[i]) >= PACKET_HEADER_SIZE
        /\ Len(sent[i]) = sent[i][1]
        /\ sent[i][Len(sent[i])] = END_MARK

\* C8 witness: an update_voltage packet whose payload holds the end mark's
\* value has been sent.
C8_Witness ==
    /\ sent # << >>
    /\ sent[1][2] = UPDATE_VOLTAGE
    /\ sent[1][5] = END_MARK
    /\ Len(sent[1]) = 9

\* C5: a registration leaves the id stored for the registering operator,
\* whoever held it before; an entry changes hands by a registration only; and
\* whatever a response frame carrying a stored id delivers goes to the
\* operator stored under that id, that is to the one that registered last.
C5_LastRegistrantWins ==
    [][ /\ registered'.kind = "registered" =>
              /\ registered'.id \in DOMAIN m_request_clients'
              /\ m_request_clients'[registered'.id] = registered'.client
        /\ \A K \in DOMAIN m_request_clients' :
              (K \in DOMAIN m_request_clients
                 /\ m_request_clients'[K] # m_request_clients[K]) =>
                 /\ registered'.kind = "registered"
                 /\ registered'.id = K
        /\ LET r == Dispatched(outcome')
           IN  (r # << >> /\ delivered' # << >>) =>
                 /\ r[3] \in DOMAIN m_request_clients
                 /\ \A i \in 1..Len(delivered') :
                       delivered'[i].to = m_request_clients[r[3]]
      ]_vars

\* C5 witness: a request has just been registered under an id that was still
\* stored for the other operator.
C5_Witness ==
    /\ registered.kind = "registered"
    /\ registered.replaced \in Operators \ {registered.client}
    /\ m_request_clients[registered.id] = registered.client

\* C6 (as the specification states it): no entry of the correlator is keyed
\* by the reserved id 0xFF.
C6_NoReservedIdStored ==
    RESERVED_ID \notin DOMAIN m_request_clients

\* C7 (as the specification states it): no packet the ground hands to the
\* connection carries the id 0xFF.
C7_NoReservedIdOnLink ==
    \A i \in 1..Len(sent) : sent[i][3] # RESERVED_ID

\* Bytes of the stream the loop has taken in.
Consumed == Len(StreamOf(units)) - Len(link)

\* What the iteration that took in the n-th byte of text line, frame, text
\* line has to produce: each unit when its last byte is taken in, nothing
\* anywhere else.
Expected(u, n) ==
    IF n = Len(u.first) THEN [kind |-> "text", bytes |-> u.first]
    ELSE IF n = Len(u.first) + Len(u.frame)
         THEN [kind |-> "frame", bytes |-> u.frame]
    ELSE IF n = Len(StreamOf(u)) THEN [kind |-> "text", bytes |-> u.last]
    ELSE None

\* The loop has produced what the stream holds up to here, and at the end of
\* each unit holds no byte back.
UnitsKept ==
    /\ outcome = Expected(units, Consumed)
    /\ outcome # None => response = << >>

\* Declared lengths the loop takes for the start of a text line: the ASCII
\* letters and the line feed.
TextLikeLengths == { len \in FrameLengths : IsAlpha(len) \/ len = LINE_FEED }

C9_EarlyEndMarkKept ==
    [][ ( /\ response # << >>
          /\ ~IsAlpha(response[1]) /\ response[1] # LINE_FEED
          /\ link # << >>
          /\ Head(link) = END_MARK
          /\ Len(response) + 1 < response[1]
          /\ link' = Tail(link) )
        => /\ response' = Append(response, END_MARK)
           /\ outcome' = None
      ]_vars

\* C9 witness: the accumulator of a binary frame ends with a 0x55 and is
\* shorter than the declared length.
C9_Witness ==
    /\ Len(response) > PACKET_HEADER_SIZE
    /\ ~IsAlpha(response[1]) /\ response[1] # LINE_FEED
    /\ response[Len(response)] = END_MARK
    /\ Len(response) < response[1]
    /\ outcome = None

\* C10 (as the specification states it): the accumulator never holds more
\* than 256 bytes.
C10_AccumulatorCeiling ==
    Len(response) <= 256

\* The handler of a terminal response of type `type` has run for the id K
\* stored for the operator o: o got the handler's text and K is no longer
\* stored.
TerminalText(type) ==
    CASE type = ACK -> "Sucess operation"
      [] type = NACK -> "Request failed. Please try again."
      [] type = TOTAL_LOGS -> "Completed retrieval of sensor logs."
      [] type = EVENT_LOG_END -> "Completed retrieval of events logs."
      [] type = RESPONSE_CURRENT_TIME -> "Current time"

\* C11 (as the specification states it): a frame of 9 bytes whose first byte
\* is 9 is handled by the handler of the type it carries at offset 1, under
\* the id it carries at offset 2: when that type is a terminal one and the id
\* is stored for a connected operator, that operator gets the handler's
\* message and the entry is removed.
C11_NineByteFrameKeepsType ==
    [][ ( /\ outcome'.kind = "frame"
          /\ Len(outcome'.bytes) = 9
          /\ outcome'.bytes[1] = 9
          /\ outcome'.bytes[2] \in TerminalTypes
          /\ outcome'.bytes[3] \in DOMAIN m_request_clients
          /\ active[m_request_clients[outcome'.bytes[3]]] )
        => /\ OneMessage(m_request_clients[outcome'.bytes[3]],
                         TerminalText(outcome'.bytes[2]))
           /\ outcome'.bytes[3] \notin DOMAIN m_request_clients'
      ]_vars

\* C12 (as the specification states it): a frame handed to handle_response
\* that is_valid_response rejects runs no handler: the correlator, the
\* latest reading, the index and the id counter stay as they are, nothing is
\* delivered and nothing is sent.
C12_MalformedFrameDiscarded ==
    [][ (outcome'.kind = "frame" /\ ~is_valid_response(outcome'.bytes))
        => /\ UNCHANGED <<m_request_clients, m_latest_data, m_sensor_data,
                          current_id>>
           /\ delivered' = << >>
           /\ sent' = << >>
      ]_vars

CorrelatedTypes ==
    {ACK, NACK, SENSOR_LOG, TOTAL_LOGS, EVENT_LOG, EVENT_LOG_END,
     RESPONSE_CURRENT_TIME}

\* C13: a frame of a correlated type whose id is not stored delivers nothing
\* and leaves the correlator as it was.
C13_CorrelatorMissDropped ==
    [][ LET r == Dispatched(outcome')
        IN  ( /\ r # << >>
              /\ r[2] \in CorrelatedTypes
              /\ r[3] \notin DOMAIN m_request_clients )
            => /\ delivered' = << >>
               /\ m_request_clients' = m_request_clients
      ]_vars

\* C13 witness: a SENSOR_LOG frame under the id nobody was given has just
\* been handled while a request of a connected operator is pending; its
\* reading is in the index and nobody got a message.
C13_Witness ==
    LET r == Dispatched(outcome)
    IN  /\ r # << >>
        /\ r[2] = SENSOR_LOG
        /\ r[3] = 99
        /\ \E K \in DOMAIN m_request_clients : active[m_request_clients[K]]
        /\ Len(m_sensor_data) = 1
        /\ delivered = << >>

\* C17: the step in which a session stops leaves the correlator as it was;
\* afterwards a frame carrying an id stored for a stopped session delivers
\* nothing, a streamed record keeps the entry and a terminal response
\* removes it.
C17_EntryOutlivesOperator ==
    [][ /\ (\E o \in Operators : active[o] /\ ~active'[o])
            => m_request_clients' = m_request_clients
        /\ LET r == Dispatched(outcome')
           IN  ( /\ r # << >>
                 /\ r[2] \in CorrelatedTypes
                 /\ r[3] \in DOMAIN m_request_clients
                 /\ ~active[m_request_clients[r[3]]] )
               => /\ delivered' = << >>
                  /\ r[2] \in TerminalTypes
                        => r[3] \notin DOMAIN m_request_clients'
                  /\ r[2] \notin TerminalTypes
                        => /\ r[3] \in DOMAIN m_request_clients'
                           /\ m_request_clients'[r[3]] = m_request_clients[r[3]]
      ]_vars

\* C17 witness: a SENSOR_LOG frame has just been handled under an id stored
\* for an operator that has left; nothing was delivered and the entry is
\* still there.
C17_Witness ==
    LET r == Dispatched(outcome)
    IN  /\ r # << >>
        /\ r[2] = SENSOR_LOG
        /\ r[3] \in DOMAIN m_request_clients
        /\ ~active[m_request_clients[r[3]]]
        /\ Len(m_sensor_data) = 1
        /\ delivered = << >>

\* C19: handling a BEACON frame decodes it over latest_data, leaves the index
\* and the correlator as they were, sends and delivers nothing; and a step
\* that changes the index handles a SENSOR_LOG frame.
C19_BeaconOnlyLatestData ==
    [][ LET r == Dispatched(outcome')
        IN  /\ (r # << >> /\ r[2] = BEACON) =>
                  /\ m_latest_data' = parse_sensor_data(r, m_latest_data)
                  /\ m_sensor_data' = m_sensor_data
                  /\ m_request_clients' = m_request_clients
                  /\ sent' = << >>
                  /\ delivered' = << >>
            /\ m_sensor_data' # m_sensor_data =>
                  (r # << >> /\ r[2] = SENSOR_LOG)
      ]_vars

\* C19 witness: the beacon of the second stored reading has just been
\* handled; latest_data holds that reading, the index holds another one and
\* a request is pending.
C19_Witness ==
    LET r == Dispatched(outcome)
    IN  /\ r # << >>
        /\ r[2] = BEACON
        /\ m_latest_data = SensorStore[2]
        /\ m_sensor_data = << SensorStore[1] >>
        /\ m_request_clients # << >>

\* C20: the stored readings are in strictly ascending timestamp order.
C20_IndexStrictlyAscending ==
    \A i \in 1..(Len(m_sensor_data) - 1) :
        m_sensor_data[i].timestamp < m_sensor_data[i + 1].timestamp

\* C20 witness: the reading just inserted has the timestamp of a stored
\* reading that differs from it, in the middle of an index of three or more.
C20_Witness ==
    /\ outcome.kind = "insert"
    /\ Len(m_sensor_data) >= 3
    /\ \E i \in 2..(Len(m_sensor_data) - 1) :
          /\ m_sensor_data[i].timestamp = outcome.data.timestamp
          /\ m_sensor_data[i].temp # outcome.data.temp

\* C18 (as the specification states it): a session that has stopped and that
\* the gateway no longer holds is released: no shared_ptr refers to it,
\* whatever the correlator has pending.
C18_PendingEntryHoldsNoSession ==
    \A o \in Operators :
        (~active[o] /\ o \notin clients_) => use_count(o) = 0

\* C14 (as the specification states it): the io thread is never inside the
\* assignment m_request_clients[id] = client while the listen thread is
\* inside a lookup or removal on the same map.
C14_MapAccessExclusive ==
    ~(InsideMap("io") /\ InsideMap("listen"))

\* The bytes a thread has on the line are next to one another.
Contiguous(thread) ==
    \A i \in 1..Len(wire), k \in 1..Len(wire) :
        (i < k /\ wire[i].by = thread /\ wire[k].by = thread) =>
            \A j \in i..k : wire[j].by = thread

\* The bytes a thread has on the line, in order.
BytesOf(thread) ==
    LET ByThread(e) == e.by = thread
        own == SelectSeq(wire, ByThread)
    IN  [i \in 1..Len(own) |-> own[i].byte]

\* C15: the bytes of the packet a thread has put on the line since it took
\* up its job lie next to one another, with no byte of the other thread's
\* packet among them, and once the thread has sent its packet they are the
\* packet.
C15_PacketsContiguous ==
    \A thread \in Threads :
        /\ Contiguous(thread)
        /\ (pc[thread] # Ready /\ pc[thread].at = "sent") =>
              BytesOf(thread) = message_buffer(pc[thread].packet)

\* C15 witness: the io thread has sent its REQUEST_CURRENT_TIME packet and
\* is still inside send_packet_to_altair's caller; the TIME_SEND packet of
\* the listen thread, which has not returned from its handler either, is on
\* the line before it.
C15_Witness ==
    /\ pc["io"] # Ready /\ pc["io"].at = "sent"
    /\ pc["listen"] # Ready /\ pc["listen"].at = "sent"
    /\ Len(wire) = 18
    /\ wire[1].by = "listen" /\ wire[2].byte = TIME_SEND
    /\ wire[10].by = "io" /\ wire[11].byte = REQUEST_CURRENT_TIME

\* C16: the id a thread got from the n-th call of generateID is
\* (n - 1) mod 256, and two threads that hold the same id got it from calls
\* that are 256 or more apart.
C16_SequentialIds ==
    /\ \A t \in Threads :
          (pc[t] # Ready /\ pc[t].n > 0) => pc[t].id = (pc[t].n - 1) % 256
    /\ \A t \in Threads :
          ( /\ pc[t] # Ready /\ pc[t].n > 0
            /\ pc[Other(t)] # Ready /\ pc[Other(t)].n > pc[t].n
            /\ pc[Other(t)].id = pc[t].id )
          => pc[Other(t)].n - pc[t].n >= 256

\* C16 witness: a thread has just got id 0 from the 257th call while the
\* other thread still holds the id 0 of the first call.
C16_Witness ==
    \E t \in Threads :
        /\ pc[t] # Ready /\ pc[t].at = "fetched"
        /\ pc[t].n = 257 /\ pc[t].id = 0
        /\ pc[Other(t)] # Ready
        /\ pc[Other(t)].n = 1 /\ pc[Other(t)].id = 0

\* C21: inserting a reading whose timestamp is stored returns true and
\* leaves the index as it was, the stored reading included; and in every
\* state, inserting any reading twice gives what inserting it once gives.
C21_DuplicateTimestampIgnored ==
    [][ /\ ( /\ outcome'.kind = "insert"
              /\ \E i \in 1..Len(m_sensor_data) :
                    m_sensor_data[i].timestamp = outcome'.data.timestamp )
            => /\ outcome'.returned = TRUE
               /\ m_sensor_data' = m_sensor_data
        /\ \A data \in IndexReadings :
              insertSensorData(insertSensorData(m_sensor_data, data), data)
                 = insertSensorData(m_sensor_data, data)
      ]_vars

\* C21 witness: a reading has just been inserted whose timestamp is that of
\* the first of two or more stored readings and whose temperature differs
\* from the stored one.
C21_Witness ==
    /\ outcome.kind = "insert"
    /\ outcome.returned = TRUE
    /\ Len(m_sensor_data) >= 2
    /\ m_sensor_data[1].timestamp = outcome.data.timestamp
    /\ m_sensor_data[1].temp = 20
    /\ outcome.data.temp = 21

\* The stored readings with start_time <= timestamp <= end_time, in order.
InRange(vec, start_time, end_time) ==
    LET Within(r) == start_time <= r.timestamp /\ r.timestamp <= end_time
    IN  SelectSeq(vec, Within)

\* C22 (as the specification states it): getSensorDataInRange returns no
\* value when the index is empty or start_time is above the latest stored
\* timestamp, and in every other case the stored readings within the range,
\* start_time above end_time included.
C22_RangeReturnsInclusiveSlice ==
    outcome.kind = "range" =>
        outcome.returned =
            IF m_sensor_data = << >> THEN nullopt
            ELSE IF outcome.start_time
                      > m_sensor_data[Len(m_sensor_data)].timestamp
            THEN nullopt
            ELSE Some(InRange(m_sensor_data, outcome.start_time,
                              outcome.end_time))

\* C23: a method of the index that returns has returned what it returns,
\* and left the index as it leaves it, when run with nothing in between on
\* the index of the moment before; the index it leaves is in strictly
\* ascending timestamp order; and no step that is not such a return changes
\* the index.
C23_IndexOperationsAtomic ==
    [][ /\ \A t \in Threads :
              (pc[t] # Ready /\ pc[t].at = "index_located" /\ pc'[t] = Ready)
              => /\ outcome'.returned = IndexResult(pc[t].op, m_sensor_data)
                 /\ m_sensor_data' = IndexEffect(pc[t].op, m_sensor_data)
        /\ m_sensor_data' # m_sensor_data => outcome'.kind = "index"
        /\ \A i \in 1..(Len(m_sensor_data') - 1) :
              m_sensor_data'[i].timestamp < m_sensor_data'[i + 1].timestamp
      ]_vars

\* C23 witness: getSensorDataInRange(2, 3) has just returned one reading to
\* the other thread while the listen thread, which called insertSensorData
\* with a timestamp in that range, waits for the mutex.
C23_Witness ==
    /\ outcome.kind = "index"
    /\ outcome.op.kind = "getSensorDataInRange"
    /\ outcome.op.start_time = 2
    /\ outcome.returned.kind = "value"
    /\ Len(outcome.returned.value) = 1
    /\ Len(m_sensor_data) = 3
    /\ pc["listen"] # Ready
    /\ pc["listen"].at = "index_call"
    /\ pc["listen"].op.data.timestamp = 3

\* C24: the SENSOR_LOG frame send_sensor_logs builds for a reading, the
\* BEACON frame of send_keep_alive_packet and the EVENT frame
\* send_event_packet builds for an event are parsed by parse_sensor_data /
\* parse_event_data into a record equal to the one sent in every field, and
\* building the frame again from the parsed record gives the same bytes.
C24_FramesRoundTrip ==
    outcome.kind \in {"sensor_log_codec", "beacon_codec", "event_codec"}
    => /\ outcome.decoded = outcome.record
       /\ outcome.again = outcome.frame
       /\ Len(outcome.frame) = outcome.frame[1]

\* C24 witness: a SENSOR_LOG reading of the largest timestamp and of
\* temperature 255 went through both codecs.
C24_Witness ==
    /\ outcome.kind = "sensor_log_codec"
    /\ outcome.record.timestamp = 2147483647
    /\ outcome.decoded.temp = 255
    /\ outcome.frame[16] = 127
    /\ outcome.again[3] = RESERVED_ID

\* The payload size the protocol gives each command packet type.
PayloadSize(type) ==
    CASE type \in {TIME_SEND, UPDATE_VOLTAGE} -> 4
      [] type \in {UPDATE_MIN_TEMP, UPDATE_MAX_TEMP, UPDATE_HUMIDITY,
                   UPDATE_LIGHT} -> 1
      [] type \in {REQUEST_SENSOR_LOGS, REQUEST_EVENT_LOG} -> 8
      [] type = REQUEST_CURRENT_TIME -> 0

\* C25: every packet a command method hands to the link has a data_len byte
\* of 5 plus the payload size of its type: 4 for TIME_SEND and
\* UPDATE_VOLTAGE, 1 for the four one-byte updates, 8 for the two log
\* requests and 0 for REQUEST_CURRENT_TIME.
C25_DataLenMatchesPayload ==
    \A i \in 1..Len(sent) :
        sent[i][1] = PACKET_HEADER_SIZE + PayloadSize(sent[i][2])

\* The step hands a frame of type TIME_REQUEST to its handler.
TimeRequestTaken ==
    /\ outcome'.kind = "frame"
    /\ Len(outcome'.bytes) >= PACKET_HEADER_SIZE
    /\ Compensated(outcome'.bytes)[2] = TIME_REQUEST

\* A nine-byte TIME_SEND packet whose payload is the clock's value.
IsTimeSend(p) ==
    /\ Len(p) = 9
    /\ p[1] = 9
    /\ p[2] = TIME_SEND
    /\ ReadLE32(p, 5) \in ClockValues

\* The listen thread is inside send_packet_to_altair with a packet whose id
\* came out as 0xFF.
ListenSubstituting == pc["listen"] # Ready /\ pc["listen"].at = "substitute"

\* C26: the step that takes a TIME_REQUEST frame leaves the correlator alone,
\* delivers nothing and either sends exactly one TIME_SEND packet with the
\* clock's value or, the id having come out as 0xFF, goes on to replace the
\* id; until that packet is sent the listen thread takes no other frame, and
\* the step that sends it sends exactly that one packet and leaves the
\* correlator alone.  No step sends a TIME_SEND packet otherwise.
C26_TimeRequestAnsweredOnce ==
    [][ /\ TimeRequestTaken
           => /\ m_request_clients' = m_request_clients
              /\ registered' = None
              /\ delivered' = << >>
              /\ \/ /\ Len(sent') = 1
                    /\ IsTimeSend(sent'[1])
                    /\ pc'["listen"] = Ready
                 \/ /\ sent' = << >>
                    /\ pc'["listen"] # Ready
                    /\ pc'["listen"].at = "substitute"
                    /\ pc'["listen"].packet.packetType = TIME_SEND
        /\ ListenSubstituting
           => /\ outcome'.kind # "frame"
              /\ \/ pc'["listen"] = pc["listen"]
                 \/ /\ pc'["listen"] = Ready
                    /\ Len(sent') = 1
                    /\ IsTimeSend(sent'[1])
                    /\ m_request_clients' = m_request_clients
        /\ (\E i \in 1..Len(sent') : sent'[i][2] = TIME_SEND)
           => TimeRequestTaken \/ ListenSubstituting
      ]_vars

\* C26 witness: the TIME_REQUEST came with the id counter at 0xFF, and the
\* TIME_SEND packet has just gone out under the id 0 that replaced it.
C26_Witness ==
    /\ Len(sent) = 1
    /\ IsTimeSend(sent[1])
    /\ sent[1][3] = 0
    /\ current_id = 1
    /\ pc["listen"] = Ready

\* The texts of the error messages of handle_request.
ErrorTexts ==
    { "Error: Light value must be between 0 and 100",
      "Error: Invalid temperature value",
      "Error: Invalid humidity value",
      "Error: Humidity value must be between 0 and 100",
      "Error: Invalid voltage value",
      "Error: Voltage value must be between 0.1 and 3.3",
      "Error: Invalid timestamp values. Format: get_logs",
      "Error: Invalid timestamp values. Format: get_events_logs",
      "Error: Invalid time value. Format: set_time",
      "Error: Cannot set time before the latest sensor data timestamp" }

\* The step is the handling of the command line: it is neither an iteration
\* of the listen loop, which takes a byte off the line, nor the arrival of
\* bytes on it.
CommandHandled == link' = link

\* The argument of the line is missing or is no number, or is a number
\* outside the range its command accepts.
BadArgument(l) ==
    \/ ~l.parsed
    \/ l.command \in {"update_light", "update_humidity"}
       /\ (l.value < 0 \/ l.value > 100)
    \/ l.command = "update_voltage"
       /\ (FloatLess(l.value, FLOAT_0_1) \/ FloatLess(FLOAT_3_3, l.value))
    \/ l.command = "set_time" /\ l.value < m_latest_data.timestamp

\* C27: a command whose argument is missing, is no number or is out of
\* range sends one message to the operator who gave it, the text of which
\* is one of the error texts, sends no packet, takes no id and stores no
\* entry in m_request_clients.
C27_BadArgumentNoSideEffect ==
    [][ (CommandHandled /\ BadArgument(units))
        => /\ Len(delivered') = 1
           /\ delivered'[1].to = units.client
           /\ delivered'[1].text \in ErrorTexts
           /\ sent' = << >>
           /\ current_id' = current_id
           /\ m_request_clients' = m_request_clients
      ]_vars

\* C28: update_voltage with a number below 0.1 or above 3.3 sends the
\* operator "Error: Voltage value must be between 0.1 and 3.3" and no packet;
\* with any other number, 0.1 and 3.3 included, it sends exactly one
\* UPDATE_VOLTAGE packet, whose payload is the four bytes of the number.
C28_VoltageRange ==
    [][ (CommandHandled /\ units.command = "update_voltage" /\ units.parsed)
        => IF units.value < FLOAT_0_1 \/ units.value > FLOAT_3_3
           THEN /\ sent' = << >>
                /\ Len(delivered') = 1
                /\ delivered'[1].to = units.client
                /\ delivered'[1].text
                      = "Error: Voltage value must be between 0.1 and 3.3"
           ELSE /\ Len(sent') = 1
                /\ Len(sent'[1]) = 9
                /\ sent'[1][2] = UPDATE_VOLTAGE
                /\ ReadLE32(sent'[1], 5) = units.value
      ]_vars

\* C28 witness: update_voltage 3.3 has just put its packet on the link.
C28_Witness ==
    /\ units.command = "update_voltage"
    /\ units.value = FLOAT_3_3
    /\ Len(sent) = 1
    /\ sent[1][2] = UPDATE_VOLTAGE
    /\ ReadLE32(sent[1], 5) = FLOAT_3_3

\* C29: set_time with a number strictly below the timestamp of the latest
\* beacon sends no packet and answers with the error that names that
\* timestamp; with any other number it sends exactly one TIME_SEND packet
\* whose payload is the number.
C29_SetTimeNotBeforeLatest ==
    [][ (CommandHandled /\ units.command = "set_time" /\ units.parsed)
        => IF units.value < m_latest_data.timestamp
           THEN /\ sent' = << >>
                /\ Len(delivered') = 1
                /\ delivered'[1].text
                      = "Error: Cannot set time before the latest sensor data timestamp"
                /\ delivered'[1].data = m_latest_data.timestamp
           ELSE /\ Len(sent') = 1
                /\ Len(sent'[1]) = 9
                /\ sent'[1][2] = TIME_SEND
                /\ ReadLE32(sent'[1], 5) = units.value
      ]_vars

\* C29 witness: set_time 1000 was accepted when the latest beacon carried
\* the timestamp 1000.
C29_Witness ==
    /\ units.command = "set_time"
    /\ units.value = 1000
    /\ m_latest_data.timestamp = 1000
    /\ Len(sent) = 1
    /\ sent[1][2] = TIME_SEND

\* The frames of a byte sequence made of whole frames: each starts with its
\* length.
RECURSIVE FramesOf(_)
FramesOf(bytes) ==
    IF bytes = << >> THEN << >>
    ELSE << SubSeq(bytes, 1, bytes[1]) >>
         \o FramesOf(SubSeq(bytes, bytes[1] + 1, Len(bytes)))

\* At most 10 SENSOR_LOG frames under the id, then one TOTAL_LOGS frame
\* under the id, and nothing else.
LogsThenTotal(frames, id) ==
    /\ Len(frames) >= 1
    /\ Len(frames) - 1 <= 10
    /\ \A i \in 1..(Len(frames) - 1) :
          /\ Len(frames[i]) = 17
          /\ frames[i][2] = SENSOR_LOG
          /\ frames[i][3] = id
    /\ Len(frames[Len(frames)]) = 6
    /\ frames[Len(frames)][2] = TOTAL_LOGS
    /\ frames[Len(frames)][3] = id

Servable(request) ==
    /\ request.start <= request.end
    /\ \A t \in {request.start, request.end} :
          \E i \in 1..Len(request.files) :
              request.files[i].name = t \div DayLen

-----------------------------------------------------------------------------
(* The request packet and its registration                                 *)

RequestTypes == {REQUEST_SENSOR_LOGS, REQUEST_EVENT_LOG, REQUEST_CURRENT_TIME}

\* The io thread leaves send_packet_to_altair with a request packet whose id
\* it had to replace.
RequestSubstituted ==
    /\ pc["io"].at = "substitute"
    /\ pc'["io"] = Ready
    /\ pc["io"].packet.packetType \in RequestTypes

\* C31 (as the specification states it): the id under which a correlated
\* request registers its operator is the response_id byte of the packet that
\* goes on the link for that request, at every value of the id counter; both
\* when the packet is sent in the step that registers and when the id is
\* replaced first.
C31_RegisteredIdIsSentId ==
    [][ /\ (registered'.kind = "registered" /\ Len(sent') = 1)
            => sent'[1][3] = registered'.id
        /\ RequestSubstituted
            => /\ Len(sent') = 1
               /\ sent'[1][3] = pc["io"].packet.m_respnse_id
      ]_vars

-----------------------------------------------------------------------------
(* SpecEvents: the satellite's asynchronous EVENT packets on the way to    *)
(* the ground.  One event is chosen at the start and recorded in `units`;  *)
(* the satellite transmits its packet whenever the line is quiet and the   *)
(* listen loop takes it in byte by byte.                                   *)

\* Timestamps with the end mark in each of their four bytes, and without it.
EventStamps ==
    {0, 1000, END_MARK, END_MARK * 256, END_MARK * 65536,
     END_MARK * 16777216, LINE_FEED * 256, 2147483647}

\* The state after the AltairServer constructor, apart from the input.
Constructed ==
    /\ link = << >>
    /\ current_id = 0
    /\ m_request_clients = << >>
    /\ m_latest_data = ZeroSensorData
    /\ m_sensor_data = << >>
    /\ active = [o \in Operators |-> TRUE]
    /\ response = << >>
    /\ pc = [t \in Threads |-> Ready]
    /\ outcome = None
    /\ delivered = << >>
    /\ sent = << >>
    /\ registered = None
    /\ clients_ = Operators
    /\ mtx = "free"
    /\ calls = 0
    /\ wire = << >>
    /\ m_mutex = "free"
    /\ PoweredOn

InitEvents ==
    /\ units \in [event : 0..7, timestamp : EventStamps]
    /\ Constructed

\* transmit_task sends the packet send_event_packet has built.
EventsTransmit ==
    /\ Quiet
    /\ transmit(send_event_packet(units))

NextEvents == Listen \/ EventsTransmit

SpecEvents == InitEvents /\ [][NextEvents]_vars

-----------------------------------------------------------------------------
(* The EVENT packet through the listen loop                                *)

\* The iteration of listen that takes the last byte of the packet.
LastByteTaken == link # << >> /\ link' = << >>

\* The last iteration handed over the EVENT frame of the event e.
EventDecoded(o, e) ==
    /\ o.kind = "frame"
    /\ Len(Dispatched(o)) = 10
    /\ Dispatched(o)[2] = EVENT
    /\ \A junk \in CodecJunk :
          parse_event_data(Dispatched(o), [event |-> junk, timestamp |-> junk])
              = [event |-> e.event, timestamp |-> e.timestamp]

\* C32 (as the specification states it): the ten bytes of every EVENT packet
\* the satellite transmits end up as one frame: no iteration before the last
\* byte hands a frame to handle_response, and the iteration that takes the
\* last byte hands over a frame of type EVENT from which parse_event_data
\* reads the event code and the timestamp that were sent, and leaves the
\* accumulator empty.
C32_EventPacketDecoded ==
    [][ (link # << >> /\ link' = Tail(link)) =>
            IF LastByteTaken
            THEN EventDecoded(outcome', units) /\ response' = << >>
            ELSE outcome'.kind # "frame"
      ]_vars

\* The same for the events whose timestamp has no end mark in its two high
\* bytes.
C32_EventPacketDecodedLowMarks ==
    [][ (link # << >> /\ link' = Tail(link)
         /\ (units.timestamp \div 65536) % 256 # END_MARK
         /\ units.timestamp \div 16777216 # END_MARK) =>
            IF LastByteTaken
            THEN EventDecoded(outcome', units) /\ response' = << >>
            ELSE outcome'.kind # "frame"
      ]_vars

-----------------------------------------------------------------------------
(* The tasks of the satellite firmware.  A task is at a position of its    *)
(* code (task[t].at); a step takes it to the next place where it may have  *)
(* to wait or where another task may see a difference.                     *)

\* send_queue.h
QUEUE_SIZE == 256

\* Slots of the settings queues and of g_sensor_queue.
MsgSlots == 1

\* Slots of g_event_queue.
EventSlots == 3

\* EventData.event values (the AltairEvent enumeration).
EVENT_OK_TO_ERROR == 0
EVENT_ERROR_TO_OK == 1
EVENT_INIT == 3
EVENT_OK_TO_SAFE == 4
EVENT_SAFE_TO_ERROR == 5
EVENT_SAFE_TO_OK == 6
EVENT_ERROR_TO_SAFE == 7

\* Commands the ground station sends ahead of the one being handled.
MaxPending == 1

\* Records a file of the SD card has room for.
CardRecords == 3

\* The last second at which the collector takes a sample.
MaxClock == 12

\* What the stack may hold where handle_event_transition leaves
\* event_data.event unassigned.
EventJunk == {0, 1, 7, 170}

\* The event flags the transmit task waits for.
TransmitFlags == {"FLAG_KEEP_ALIVE", "FLAG_REPORTS", "FLAG_EVENT"}

\* Queue_enque: all the bytes, or none when they do not fit.
Queue_enque(queue, data) ==
    IF Len(queue) + Len(data) <= QUEUE_SIZE THEN queue \o data ELSE queue

\* Queue_getChar: the byte at the head, or 0 from an empty queue.
Queue_getChar(queue) ==
    IF queue = << >> THEN [char |-> 0, queue |-> << >>]
    ELSE [char |-> Head(queue), queue |-> Tail(queue)]

Queue_size(queue) == Len(queue)

\* The calls of send_message a handler makes, one Queue_enque per frame; the
\* value Queue_enque returns is not looked at.
RECURSIVE enque_each(_, _)
enque_each(queue, frames) ==
    IF frames = << >> THEN queue
    ELSE enque_each(Queue_enque(queue, Head(frames)), Tail(frames))

\* osMessageQueuePut with no timeout: the message is dropped when the queue
\* is full.
osMessageQueuePut(queue, slots, msg) ==
    IF Len(queue) < slots THEN Append(queue, msg) ELSE queue

\* The ground station's variables, which no step of the satellite touches.
GroundIdle ==
    UNCHANGED <<m_request_clients, m_latest_data, m_sensor_data, active, link,
                response, pc, delivered, sent, registered, units, clients_,
                mtx, calls, wire, m_mutex>>

\* What a step of a satellite task leaves alone unless it says otherwise.
osqueues ==
    <<g_event_queue, g_sensor_queue, g_sensor_limits_change,
      g_flah_limits_change>>

TaskAt(t, position) == task[t].at = position

Goto(t, position) == task' = [task EXCEPT ![t] = [at |-> position]]

-----------------------------------------------------------------------------
(* init_altair                                                             *)

\* init_system, first half: init_uart arms the receive interrupt, so from
\* here on the bytes of a command are taken into recieve_queue.
init_system ==
    /\ TaskAt("init", "init_system")
    /\ Goto("init", "init_logger")
    /\ uart' = NoBytes
    /\ outcome' = None
    /\ UNCHANGED <<current_id, queues, g_evtID, recieve_queue, osqueues,
                   file_mutexes, g_latest_sensor_data, rtc, sd_card>>
    /\ GroundIdle

\* init_system, second half: init_logger, global_queues_init, reset_flash,
\* setup_transmit_context.
init_logger ==
    /\ TaskAt("init", "init_logger")
    /\ Goto("init", "create_recieve_task")
    /\ uart' = NoBytes
    /\ outcome' = None
    /\ UNCHANGED <<current_id, queues, g_evtID, recieve_queue, osqueues,
                   file_mutexes, g_latest_sensor_data, rtc, sd_card>>
    /\ GroundIdle

create_recieve_task ==
    /\ TaskAt("init", "create_recieve_task")
    /\ task' = [task EXCEPT !["init"] = [at |-> "create_transmit_task"],
                            !["recieve"] = [at |-> "acquire"]]
    /\ uart' = NoBytes
    /\ outcome' = None
    /\ UNCHANGED <<current_id, queues, g_evtID, recieve_queue, osqueues,
                   file_mutexes, g_latest_sensor_data, rtc, sd_card>>
    /\ GroundIdle

create_transmit_task ==
    /\ TaskAt("init", "create_transmit_task")
    /\ task' = [task EXCEPT !["init"] = [at |-> "time_request"],
                            !["transmit"] = [at |-> "check"]]
    /\ uart' = NoBytes
    /\ outcome' = None
    /\ UNCHANGED <<current_id, queues, g_evtID, recieve_queue, osqueues,
                   file_mutexes, g_latest_sensor_data, rtc, sd_card>>
    /\ GroundIdle

\* wait_for_time_sync, first half: time_request() writes the TIME_REQUEST
\* packet straight to the UART.  Its buffer is declared with four bytes and
\* the end mark is stored in and sent from a fifth, buffer[4], outside the
\* array: the byte that goes out is the end mark or whatever the build keeps
\* at that address.
send_time_request ==
    /\ TaskAt("init", "time_request")
    /\ Goto("init", "wait_for_time_sync")
    /\ \E last \in {END_MARK, 0} :
          uart' = [by |-> "init",
                   bytes |-> SubSeq(time_request, 1, 4) \o << last >>]
    /\ outcome' = None
    /\ UNCHANGED <<current_id, queues, g_evtID, recieve_queue, osqueues,
                   file_mutexes, g_latest_sensor_data, rtc, sd_card>>
    /\ GroundIdle

\* wait_for_time_sync, second half: osEventFlagsWait returns once
\* FLAG_SET_TIME is set.
wait_for_time_sync(flags) == "FLAG_SET_TIME" \in flags

\* The init task leaves osEventFlagsWait, which clears the flag.
time_synchronised ==
    /\ TaskAt("init", "wait_for_time_sync")
    /\ wait_for_time_sync(g_evtID)
    /\ g_evtID' = g_evtID \ {"FLAG_SET_TIME"}
    /\ Goto("init", "create_core_tasks")
    /\ uart' = NoBytes
    /\ outcome' = None
    /\ UNCHANGED <<current_id, queues, recieve_queue, osqueues, file_mutexes,
                   g_latest_sensor_data, rtc, sd_card>>
    /\ GroundIdle

\* The time the RTC shows; 0 while it has never been set.
get_timestamp == rtc

\* create_core_tasks and self_destruct: create_event_task puts EVENT_INIT
\* with the clock's time on the event queue; the five tasks are created.
create_core_tasks ==
    /\ TaskAt("init", "create_core_tasks")
    /\ g_event_queue' =
          osMessageQueuePut(g_event_queue, EventSlots,
                            [event |-> EVENT_INIT, timestamp |-> get_timestamp])
    /\ task' = [task EXCEPT !["init"]       = [at |-> "terminated"],
                            !["event"]      = [at |-> "initialize"],
                            !["logger"]     = [at |-> "get", file_index |-> 1],
                            !["collector"]  = [at |-> "sample"],
                            !["keep_alive"] = [at |-> "mode_wait"],
                            !["flash"]      = [at |-> "get"]]
    /\ uart' = NoBytes
    /\ outcome' = None
    /\ UNCHANGED <<current_id, queues, g_evtID, recieve_queue, g_sensor_queue,
                   g_sensor_limits_change, g_flah_limits_change, file_mutexes,
                   g_latest_sensor_data, rtc, sd_card>>
    /\ GroundIdle

-----------------------------------------------------------------------------
(* recieve_task and the message handler                                    *)

\* The slots of the sensor log files whose mutex read_data_from_file takes
\* for a REQUEST_SENSOR_LOGS command: the file of the start, and the file of
\* the end when the first did not fill the buffer.
FilesRead(message) ==
    LET packet == wrap_message(message)
        start  == ReadLE32(packet.buffer, 1)
        end    == ReadLE32(packet.buffer, 5)
        idx_start == get_file_index(sd_card.sensor,
                         extract_file_name_from_timestamp(start))
        idx_end   == get_file_index(sd_card.sensor,
                         extract_file_name_from_timestamp(end))
    IN  IF packet.packetType # REQUEST_SENSOR_LOGS \/ end < start
           \/ idx_start < 0 \/ idx_end < 0
        THEN {}
        ELSE IF idx_start = idx_end
                \/ Len(read_data_from_file(sd_card.sensor[idx_start], start,
                                           2147483647, MAX_LOGS)) >= MAX_LOGS
        THEN {idx_start}
        ELSE {idx_start, idx_end}

\* What `outcome` records of a command the handler has taken.
Command(message, handled) ==
    [ kind |-> "command", type |-> message[2], id |-> message[3],
      value |-> IF Len(message) > 5 THEN message[5] ELSE 0,
      frames |-> handled.frames ]

\* The put on the flash queue returns: at once when the queue has room, and
\* after its 200 ms when no flash task is there to make room.  A flash task
\* that exists takes a setting from a full queue within that time.
FlashPutReturns(message) ==
    \/ altair_message_handler(sd_card.sensor, sd_card.event, 0, 0,
                              message).setting = None
    \/ Len(g_flah_limits_change) < MsgSlots
    \/ TaskAt("flash", "absent")

\* recieve_task takes a whole command from recieve_queue and runs
\* altair_message_handler on it.  read_data_from_file waits for the mutex of
\* a file it reads.  update_setting_and_notify puts the setting on the flash
\* queue, giving up after 200 ms when that queue stays full, and then waits
\* without limit for room on the collector's queue.
recieve_task ==
    /\ TaskAt("recieve", "acquire")
    /\ recieve_queue # << >>
    /\ recieve_queue' = Tail(recieve_queue)
    /\ \A i \in FilesRead(Head(recieve_queue)) : file_mutexes[i] = "free"
    /\ FlashPutReturns(Head(recieve_queue))
    /\ \E junk \in {0, END_MARK} :
        LET message == Head(recieve_queue)
            handled == altair_message_handler(sd_card.sensor, sd_card.event,
                                              get_timestamp, junk, message)
        IN  /\ IF handled.time = << >>
               THEN UNCHANGED <<rtc, g_evtID>>
               ELSE /\ rtc' = handled.time[1]
                    /\ g_evtID' = g_evtID \cup {"FLAG_SET_TIME"}
            /\ IF handled.setting = None
               THEN /\ queues' = [queues EXCEPT !.low =
                                    enque_each(@, FramesOf(handled.frames))]
                    /\ outcome' = Command(message, handled)
                    /\ UNCHANGED <<task, g_flah_limits_change,
                                   g_sensor_limits_change>>
               ELSE /\ g_flah_limits_change' =
                          osMessageQueuePut(g_flah_limits_change, MsgSlots,
                                            handled.setting)
                    /\ IF Len(g_sensor_limits_change) < MsgSlots
                       THEN /\ g_sensor_limits_change' =
                                  Append(g_sensor_limits_change,
                                         handled.setting)
                            /\ queues' = [queues EXCEPT !.low =
                                  enque_each(@, FramesOf(handled.frames))]
                            /\ outcome' = Command(message, handled)
                            /\ UNCHANGED task
                       ELSE /\ task' = [task EXCEPT !["recieve"] =
                                  [at |-> "osMessageQueuePut",
                                   message |-> message,
                                   handled |-> handled]]
                            /\ outcome' = None
                            /\ UNCHANGED <<queues, g_sensor_limits_change>>
    /\ uart' = NoBytes
    /\ UNCHANGED <<current_id, g_event_queue, g_sensor_queue, file_mutexes,
                   g_latest_sensor_data, sd_card>>
    /\ GroundIdle

\* The collector's queue has room again: update_setting_and_notify puts the
\* setting and sends the ACK.
recieve_task_put ==
    /\ TaskAt("recieve", "osMessageQueuePut")
    /\ Len(g_sensor_limits_change) < MsgSlots
    /\ g_sensor_limits_change' =
          Append(g_sensor_limits_change, task["recieve"].handled.setting)
    /\ queues' = [queues EXCEPT !.low =
                     enque_each(@, FramesOf(task["recieve"].handled.frames))]
    /\ Goto("recieve", "acquire")
    /\ uart' = NoBytes
    /\ outcome' = Command(task["recieve"].message, task["recieve"].handled)
    /\ UNCHANGED <<current_id, g_evtID, recieve_queue, g_event_queue,
                   g_sensor_queue, g_flah_limits_change, file_mutexes,
                   g_latest_sensor_data, rtc, sd_card>>
    /\ GroundIdle

-----------------------------------------------------------------------------
(* transmit_task                                                           *)

\* Defect variant of pick_queue: the low-priority queue is looked at first.
pick_queue_low_first(q) ==
    IF Queue_size(q.low) # 0 THEN "low"
    ELSE IF Queue_size(q.medium) # 0 THEN "medium"
    ELSE IF Queue_size(q.high) # 0 THEN "high"
    ELSE "none"

\* The if-chain of transmit_task: the queue the next packet is taken from.
pick_queue(q) ==
    IF Queue_size(q.high) # 0 THEN "high"
    ELSE IF Queue_size(q.medium) # 0 THEN "medium"
    ELSE IF Queue_size(q.low) # 0 THEN "low"
    ELSE "none"

\* wait_for_data_if_all_queues_empty: the task looks at the three sizes and
\* goes to wait for the flags when all are 0.
wait_for_data_if_all_queues_empty ==
    /\ TaskAt("transmit", "check")
    /\ IF Queue_size(queues.high) = 0 /\ Queue_size(queues.medium) = 0
          /\ Queue_size(queues.low) = 0
       THEN Goto("transmit", "osEventFlagsWait")
       ELSE Goto("transmit", "pick")
    /\ uart' = NoBytes
    /\ outcome' = None
    /\ UNCHANGED <<current_id, queues, g_evtID, recieve_queue, osqueues,
                   file_mutexes, g_latest_sensor_data, rtc, sd_card>>
    /\ GroundIdle

\* osEventFlagsWait returns when one of the three flags is set and clears
\* the flags it waited for.
transmit_wake ==
    /\ TaskAt("transmit", "osEventFlagsWait")
    /\ g_evtID \cap TransmitFlags # {}
    /\ g_evtID' = g_evtID \ TransmitFlags
    /\ Goto("transmit", "pick")
    /\ uart' = NoBytes
    /\ outcome' = None
    /\ UNCHANGED <<current_id, queues, recieve_queue, osqueues, file_mutexes,
                   g_latest_sensor_data, rtc, sd_card>>
    /\ GroundIdle

\* The for loop of transmit_queue_data: the len - 1 bytes it takes with
\* Queue_getChar after the length byte, and the queue they leave.
packet_rest(queue, len) ==
    [ bytes |-> SubSeq(queue, 1, len - 1),
      queue |-> SubSeq(queue, len, Len(queue)) ]

\* The if-chain picks a queue and transmit_queue_data takes the length byte
\* from it and transmits it.
transmit_pick ==
    /\ TaskAt("transmit", "pick")
    /\ LET q == pick_queue(queues)
       IN  IF q = "none"
           THEN /\ Goto("transmit", "check")
                /\ uart' = NoBytes
                /\ outcome' = None
                /\ UNCHANGED queues
           ELSE LET got == Queue_getChar(queues[q])
                IN  /\ queues' = [queues EXCEPT ![q] = got.queue]
                    /\ uart' = [by |-> "transmit", bytes |-> << got.char >>]
                    /\ outcome' = [ kind |-> "picked", queue |-> q,
                                    packet |-> SubSeq(queues[q], 1, got.char) ]
                    /\ task' = [task EXCEPT !["transmit"] =
                                  [at |-> "transmit_queue_data",
                                   queue |-> q, len |-> got.char]]
    /\ UNCHANGED <<current_id, g_evtID, recieve_queue, osqueues, file_mutexes,
                   g_latest_sensor_data, rtc, sd_card>>
    /\ GroundIdle

\* The for loop of transmit_queue_data: the rest of the packet, byte by
\* byte.  The other tasks add to the tail of a queue only, so the bytes are
\* those that follow the length byte whenever the loop runs.
transmit_queue_data ==
    /\ TaskAt("transmit", "transmit_queue_data")
    /\ LET t   == task["transmit"]
           got == packet_rest(queues[t.queue], t.len)
       IN  /\ queues' = [queues EXCEPT ![t.queue] = got.queue]
           /\ uart' = [by |-> "transmit", bytes |-> got.bytes]
    /\ Goto("transmit", "check")
    /\ outcome' = None
    /\ UNCHANGED <<current_id, g_evtID, recieve_queue, osqueues, file_mutexes,
                   g_latest_sensor_data, rtc, sd_card>>
    /\ GroundIdle

-----------------------------------------------------------------------------
(* keep_alive_task, event_task, collection_task, logger_beacon_task and    *)
(* flash_task                                                              *)

\* The first loop of keep_alive_task ends once a sample has set the mode.
keep_alive_mode_wait ==
    /\ TaskAt("keep_alive", "mode_wait")
    /\ g_latest_sensor_data.mode # UNINTILIZED_MODE
    /\ Goto("keep_alive", "beat")
    /\ uart' = NoBytes
    /\ outcome' = None
    /\ UNCHANGED <<current_id, queues, g_evtID, recieve_queue, osqueues,
                   file_mutexes, g_latest_sensor_data, rtc, sd_card>>
    /\ GroundIdle

\* One turn of the second loop: the beacon goes on the high-priority queue
\* and FLAG_KEEP_ALIVE is set.  The task then sleeps for 6 s, in which the
\* transmit task, woken by the flag, has sent the beacon.
keep_alive_task ==
    /\ TaskAt("keep_alive", "beat")
    /\ Queue_size(queues.high) = 0
    /\ queues' = [queues EXCEPT !.high =
                     Queue_enque(@, send_keep_alive_packet(g_latest_sensor_data))]
    /\ g_evtID' = g_evtID \cup {"FLAG_KEEP_ALIVE"}
    /\ uart' = NoBytes
    /\ outcome' = [kind |-> "beat"]
    /\ UNCHANGED <<current_id, task, recieve_queue, osqueues, file_mutexes,
                   g_latest_sensor_data, rtc, sd_card>>
    /\ GroundIdle

\* initialize_event_filesystem: the event file is created anew.
initialize_event_filesystem ==
    /\ TaskAt("event", "initialize")
    /\ Goto("event", "get")
    /\ sd_card' = [sd_card EXCEPT !.event = [opens |-> TRUE, records |-> << >>]]
    /\ uart' = NoBytes
    /\ outcome' = None
    /\ UNCHANGED <<current_id, queues, g_evtID, recieve_queue, osqueues,
                   file_mutexes, g_latest_sensor_data, rtc>>
    /\ GroundIdle

\* One turn of the loop of event_task: write_event_to_file on the event at
\* the head of g_event_queue.  The packet is sent and FLAG_EVENT set only
\* when the file opened and f_write succeeded.
event_task ==
    /\ TaskAt("event", "get")
    /\ g_event_queue # << >>
    /\ g_event_queue' = Tail(g_event_queue)
    /\ \E written \in BOOLEAN :
        LET data == Head(g_event_queue)
        IN  IF written /\ Len(sd_card.event.records) < CardRecords
            THEN /\ sd_card' = [sd_card EXCEPT !.event.records =
                                    Append(@, data)]
                 /\ queues' = [queues EXCEPT !.medium =
                                  Queue_enque(@, send_event_packet(data))]
                 /\ g_evtID' = g_evtID \cup {"FLAG_EVENT"}
                 /\ outcome' = [kind |-> "event", written |-> TRUE]
            ELSE /\ outcome' = [kind |-> "event", written |-> FALSE]
                 /\ UNCHANGED <<sd_card, queues, g_evtID>>
    /\ uart' = NoBytes
    /\ UNCHANGED <<current_id, task, recieve_queue, g_sensor_queue,
                   g_sensor_limits_change, g_flah_limits_change, file_mutexes,
                   g_latest_sensor_data, rtc>>
    /\ GroundIdle

\* handle_event_transition: the EventData it puts on g_event_queue.  No
\* branch assigns `event` for a transition out of the Error mode; `junk` is
\* what the stack held there.
handle_event_transition(data, prev_mode, junk) ==
    [ timestamp |-> data.timestamp,
      event |-> IF prev_mode = OK_MODE /\ data.mode = ERROR_MODE
                THEN EVENT_OK_TO_ERROR
                ELSE IF prev_mode = OK_MODE /\ data.mode = SAFE_MODE
                THEN EVENT_OK_TO_SAFE
                ELSE IF prev_mode = SAFE_MODE /\ data.mode = ERROR_MODE
                THEN EVENT_SAFE_TO_ERROR
                ELSE IF prev_mode = SAFE_MODE /\ data.mode = OK_MODE
                THEN EVENT_SAFE_TO_OK
                ELSE junk ]

\* The number of settings the for loop at the top of collection_task takes
\* from a queue of n: its bound is read again on every turn.
drained(n) == (n + 1) \div 2

\* One turn of the loop of collection_task with a successful
\* read_all_sensors: the limits queue is drained, the sample is taken and
\* its mode computed, a change of mode is handed to handle_event_transition,
\* the sample becomes g_latest_sensor_data and goes to the logger, and the
\* task sleeps for the sampling delay.
collection_task ==
    /\ TaskAt("collector", "sample")
    /\ rtc < MaxClock
    /\ \E mode \in {ERROR_MODE, SAFE_MODE, OK_MODE}, junk \in EventJunk :
        LET current_data == [temp |-> 20, humid |-> 45, light |-> 50,
                             mode |-> mode, voltage |-> 0,
                             timestamp |-> get_timestamp]
            prev_mode == g_latest_sensor_data.mode
        IN  /\ IF prev_mode # UNINTILIZED_MODE /\ prev_mode # mode
               THEN g_event_queue' =
                       osMessageQueuePut(g_event_queue, EventSlots,
                           handle_event_transition(current_data, prev_mode,
                                                   junk))
               ELSE /\ junk = 0
                    /\ UNCHANGED g_event_queue
            /\ g_latest_sensor_data' = current_data
            /\ g_sensor_queue' =
                  osMessageQueuePut(g_sensor_queue, MsgSlots, current_data)
            /\ outcome' = [kind |-> "sample", prev_mode |-> prev_mode,
                           data |-> current_data]
    /\ g_sensor_limits_change' =
          SubSeq(g_sensor_limits_change,
                 drained(Len(g_sensor_limits_change)) + 1,
                 Len(g_sensor_limits_change))
    /\ rtc' = rtc + 1
    /\ uart' = NoBytes
    /\ UNCHANGED <<current_id, task, queues, g_evtID, recieve_queue,
                   g_flah_limits_change, file_mutexes, sd_card>>
    /\ GroundIdle

\* manage_file_switch: the slot the sample is written to and the files
\* after the switch.  A slot that is reused has its old file unlinked.
manage_file_switch(files, file_index, current_file_name) ==
    IF files[file_index].name = current_file_name
    THEN [file_index |-> file_index, new_file |-> FALSE, files |-> files,
          unlinked |-> FALSE]
    ELSE IF files[file_index].name = NoFile.name
    THEN [file_index |-> file_index, new_file |-> TRUE,
          files |-> [files EXCEPT ![file_index].name = current_file_name],
          unlinked |-> FALSE]
    ELSE LET next == (file_index % MAX_DATA_FILES) + 1
         IN  [file_index |-> next, new_file |-> TRUE,
              files |-> [files EXCEPT ![next] =
                            [NoFile EXCEPT !.name = current_file_name]],
              unlinked |-> files[next].name # NoFile.name]

\* The mutexes at the end of a turn of logger_beacon_task that acquired the
\* mutex of file_index: osMutexRelease is reached only when the file opened
\* and the write succeeded; the two `continue` statements skip it.
logger_release(mutexes, file_index, opened, written) ==
    IF opened /\ written
    THEN [mutexes EXCEPT ![file_index] = "free"]
    ELSE [mutexes EXCEPT ![file_index] = "logger"]

\* One turn of the loop of logger_beacon_task on the sample at the head of
\* g_sensor_queue.  It waits for the mutex of the slot it writes to (and,
\* in manage_file_switch, for that of a slot it reuses).
logger_beacon_task ==
    /\ TaskAt("logger", "get")
    /\ g_sensor_queue # << >>
    /\ g_sensor_queue' = Tail(g_sensor_queue)
    /\ \E opened \in BOOLEAN, written \in BOOLEAN :
        LET data == Head(g_sensor_queue)
            sw   == manage_file_switch(sd_card.sensor, task["logger"].file_index,
                        extract_file_name_from_timestamp(data.timestamp))
            file == sw.files[sw.file_index]
            fits == Len(file.records) < CardRecords
            made == IF sw.new_file
                    THEN [file EXCEPT !.opens = TRUE, !.records = << >>]
                    ELSE [file EXCEPT !.opens = TRUE]
        IN  /\ file_mutexes[sw.file_index] = "free"
            /\ (~opened) => written
            /\ file_mutexes' = logger_release(file_mutexes, sw.file_index,
                                              opened, written /\ fits)
            /\ sd_card' = [sd_card EXCEPT !.sensor =
                  IF ~opened THEN sw.files
                  ELSE IF written /\ fits
                  THEN [sw.files EXCEPT ![sw.file_index] =
                           [made EXCEPT !.records = Append(@, data)]]
                  ELSE [sw.files EXCEPT ![sw.file_index] = made]]
            /\ task' = [task EXCEPT !["logger"].file_index = sw.file_index]
            /\ outcome' = [kind |-> "logged", file_index |-> sw.file_index,
                           opened |-> opened, written |-> written /\ fits]
    /\ uart' = NoBytes
    /\ UNCHANGED <<current_id, queues, g_evtID, recieve_queue, g_event_queue,
                   g_sensor_limits_change, g_flah_limits_change,
                   g_latest_sensor_data, rtc>>
    /\ GroundIdle

\* One turn of the loop of flash_task: the setting at the head of
\* g_flah_limits_change is written to the flash.
flash_task ==
    /\ TaskAt("flash", "get")
    /\ g_flah_limits_change # << >>
    /\ g_flah_limits_change' = Tail(g_flah_limits_change)
    /\ uart' = NoBytes
    /\ outcome' = [kind |-> "flashed"]
    /\ UNCHANGED <<current_id, task, queues, g_evtID, recieve_queue,
                   g_event_queue, g_sensor_queue, g_sensor_limits_change,
                   file_mutexes, g_latest_sensor_data, rtc, sd_card>>
    /\ GroundIdle

-----------------------------------------------------------------------------
(* The ground station's side of the UART                                    *)

\* The receive interrupt has taken the last byte of the next command of the
\* script: the command is in recieve_queue and the semaphore is released.
HAL_UART_RxCpltCallback ==
    /\ ~TaskAt("init", "init_system")
    /\ current_id < Len(units.script)
    /\ Len(recieve_queue) < MaxPending
    /\ current_id' = current_id + 1
    /\ recieve_queue' = Append(recieve_queue, units.script[current_id + 1])
    /\ uart' = NoBytes
    /\ outcome' = None
    /\ UNCHANGED <<task, queues, g_evtID, osqueues, file_mutexes,
                   g_latest_sensor_data, rtc, sd_card>>
    /\ GroundIdle

\* read_all_sensors fails: the turn of the loop ends after the limits queue
\* was drained, with no sample and no delay.
read_all_sensors_failed ==
    /\ TaskAt("collector", "sample")
    /\ g_sensor_limits_change' =
          SubSeq(g_sensor_limits_change,
                 drained(Len(g_sensor_limits_change)) + 1,
                 Len(g_sensor_limits_change))
    /\ uart' = NoBytes
    /\ outcome' = None
    /\ UNCHANGED <<current_id, task, queues, g_evtID, recieve_queue,
                   g_event_queue, g_sensor_queue, g_flah_limits_change,
                   file_mutexes, g_latest_sensor_data, rtc, sd_card>>
    /\ GroundIdle

-----------------------------------------------------------------------------
(* The satellite from power-on, with the commands of a script arriving.   *)

\* The command the ground station builds with send_value under the id.
Command_value(type, value_bytes, id) ==
    message_buffer(send_value(type, value_bytes, id, 0).packet)

Command_range(type, start, end, id) ==
    message_buffer(get_in_range(type, start, end, id, 0).packet)

\* The time the ground station sends: one sampling period before the last
\* sample.
SyncTime == MaxClock - 1

\* Commands of the flood script.
FloodCommands == 52

\* The scripts of the ground station: requests after the time was sent;
\* more settings than the limits queue holds; a request sent before the
\* time; settings sent before the time; a request and no time; a frame of a type the handler does not know and a refused setting;
\* an event-log request and a setting; a run of refused settings with no
\* time sent.
ScriptRequests ==
    << Command_value(TIME_SEND, LE32(SyncTime), 0),
       Command_range(REQUEST_SENSOR_LOGS, 0, 30, 1),
       message_buffer(get_current_time(2, 0).packet) >>

ScriptSettings ==
    << Command_value(TIME_SEND, LE32(SyncTime), 0),
       Command_value(UPDATE_LIGHT, <<50>>, 1),
       Command_value(UPDATE_MIN_TEMP, <<100>>, 2) >>

ScriptEarly ==
    << message_buffer(get_current_time(0, 0).packet),
       Command_value(TIME_SEND, LE32(SyncTime), 1) >>

ScriptUnsynced ==
    << Command_value(UPDATE_LIGHT, <<50>>, 0),
       Command_value(UPDATE_HUMIDITY, <<20>>, 1),
       Command_value(TIME_SEND, LE32(SyncTime), 2) >>

ScriptNoTime ==
    << message_buffer(get_current_time(0, 0).packet) >>

ScriptRefused ==
    << Command_value(BEACON, <<1>>, 0),
       Command_value(TIME_SEND, LE32(SyncTime), 1),
       Command_value(UPDATE_MAX_TEMP, <<101>>, 2) >>

ScriptEvents ==
    << Command_value(TIME_SEND, LE32(SyncTime), 0),
       Command_range(REQUEST_EVENT_LOG, 0, 30, 1),
       Command_value(UPDATE_HUMIDITY, <<20>>, 2) >>

ScriptFlood ==
    [i \in 1..FloodCommands |-> Command_value(UPDATE_LIGHT, <<101>>, i - 1)]

Scripts ==
    {ScriptRequests, ScriptSettings, ScriptEarly, ScriptUnsynced,
     ScriptNoTime, ScriptRefused, ScriptEvents, ScriptFlood}

InitAltair ==
    /\ units \in [kind : {"script"}, script : Scripts]
    /\ Constructed

NextAltair ==
    \/ init_system
    \/ init_logger
    \/ create_recieve_task
    \/ create_transmit_task
    \/ send_time_request
    \/ time_synchronised
    \/ create_core_tasks
    \/ HAL_UART_RxCpltCallback
    \/ recieve_task
    \/ recieve_task_put
    \/ wait_for_data_if_all_queues_empty
    \/ transmit_wake
    \/ transmit_pick
    \/ transmit_queue_data
    \/ keep_alive_mode_wait
    \/ keep_alive_task
    \/ initialize_event_filesystem
    \/ event_task
    \/ collection_task
    \/ read_all_sensors_failed
    \/ logger_beacon_task
    \/ flash_task

SpecAltair == InitAltair /\ [][NextAltair]_vars

-----------------------------------------------------------------------------
(* Properties of the satellite                                             *)

\* The bytes the step added to the low-priority queue, when it took none
\* from it.
AddedLow == SubSeq(queues'.low, Len(queues.low) + 1, Len(queues'.low))

\* The types of command the handler knows.
CommandTypes ==
    {TIME_SEND, REQUEST_SENSOR_LOGS, REQUEST_EVENT_LOG, REQUEST_CURRENT_TIME}
    \cup UpdateTypes

\* The terminal responses a command of the type may get.
TerminalOf(type) ==
    CASE type = REQUEST_SENSOR_LOGS -> {TOTAL_LOGS, NACK}
      [] type = REQUEST_EVENT_LOG -> {EVENT_LOG_END, NACK}
      [] type = REQUEST_CURRENT_TIME -> {RESPONSE_CURRENT_TIME}
      [] OTHER -> {ACK, NACK}

\* C33: for every command frame the satellite handles it enqueues exactly
\* one terminal response carrying the command's response id (ACK or NACK for
\* time-set and update commands, TOTAL_LOGS or NACK for sensor-log requests,
\* EVENT_LOG_END or NACK for event-log requests, RESPONSE_CURRENT_TIME for
\* time requests); a frame of any other type enqueues nothing.
C33_OneTerminalResponse ==
    [][ outcome'.kind = "command" =>
          LET frames   == FramesOf(AddedLow)
              terminal == {i \in 1..Len(frames) : frames[i][2] \in TerminalTypes}
          IN  IF outcome'.type \in CommandTypes
              THEN /\ Cardinality(terminal) = 1
                   /\ \A i \in terminal :
                        /\ frames[i][3] = outcome'.id
                        /\ frames[i][2] \in TerminalOf(outcome'.type)
              ELSE AddedLow = << >>
      ]_vars

-----------------------------------------------------------------------------
(* The collector and the event task after a start-up: three samples.       *)

InitCollector ==
    /\ units = [kind |-> "script",
                script |-> << Command_value(TIME_SEND, LE32(MaxClock - 3), 0) >>]
    /\ Constructed

NextCollector ==
    \/ init_system
    \/ init_logger
    \/ create_recieve_task
    \/ create_transmit_task
    \/ send_time_request
    \/ time_synchronised
    \/ create_core_tasks
    \/ HAL_UART_RxCpltCallback
    \/ recieve_task
    \/ initialize_event_filesystem
    \/ event_task
    \/ collection_task
    \/ read_all_sensors_failed

SpecCollector == InitCollector /\ [][NextCollector]_vars

\* The event kind that names the transition between two distinct modes.
TransitionKind(prev_mode, mode) ==
    CASE prev_mode = OK_MODE /\ mode = ERROR_MODE -> EVENT_OK_TO_ERROR
      [] prev_mode = OK_MODE /\ mode = SAFE_MODE -> EVENT_OK_TO_SAFE
      [] prev_mode = SAFE_MODE /\ mode = ERROR_MODE -> EVENT_SAFE_TO_ERROR
      [] prev_mode = SAFE_MODE /\ mode = OK_MODE -> EVENT_SAFE_TO_OK
      [] prev_mode = ERROR_MODE /\ mode = OK_MODE -> EVENT_ERROR_TO_OK
      [] prev_mode = ERROR_MODE /\ mode = SAFE_MODE -> EVENT_ERROR_TO_SAFE

\* C34: whenever two consecutive samples have different modes and the
\* earlier mode was initialised, exactly one event is enqueued whose kind
\* names that transition (for all six ordered pairs of distinct modes among
\* OK, Safe and Error), stamped with the new sample's timestamp; when the
\* mode does not change, no event is enqueued.
C34_TransitionEventEnqueued ==
    [][ outcome'.kind = "sample" =>
          LET prev_mode == outcome'.prev_mode
              data      == outcome'.data
          IN  IF prev_mode # UNINTILIZED_MODE /\ prev_mode # data.mode
              THEN g_event_queue' =
                      Append(g_event_queue,
                             [event |-> TransitionKind(prev_mode, data.mode),
                              timestamp |-> data.timestamp])
              ELSE g_event_queue' = g_event_queue
      ]_vars

\* The same for the four transitions out of the OK and Safe modes, while the
\* event queue has room.
C34_TransitionEventEnqueuedFromOkOrSafe ==
    [][ (outcome'.kind = "sample" /\ outcome'.prev_mode # ERROR_MODE
         /\ Len(g_event_queue) < EventSlots) =>
          LET prev_mode == outcome'.prev_mode
              data      == outcome'.data
          IN  IF prev_mode # UNINTILIZED_MODE /\ prev_mode # data.mode
              THEN g_event_queue' =
                      Append(g_event_queue,
                             [event |-> TransitionKind(prev_mode, data.mode),
                              timestamp |-> data.timestamp])
              ELSE g_event_queue' = g_event_queue
      ]_vars

PercentageTypes ==
    {UPDATE_MIN_TEMP, UPDATE_MAX_TEMP, UPDATE_HUMIDITY, UPDATE_LIGHT}

\* The attribute under which the handler of the type stores the value.
AttributeOf(type) ==
    CASE type = UPDATE_MIN_TEMP -> "UPDATE_MIN_TEMP_LIMIT"
      [] type = UPDATE_MAX_TEMP -> "UPDATE_MAX_TEMP_LIMIT"
      [] type = UPDATE_HUMIDITY -> "UPDATE_HUMIDITY_LIMIT"
      [] type = UPDATE_LIGHT -> "UPDATE_LIGHT_LIMIT"

\* The step takes a command of one of the four types from recieve_queue.
PercentageTaken ==
    /\ TaskAt("recieve", "acquire")
    /\ recieve_queue # << >>
    /\ recieve_queue' = Tail(recieve_queue)
    /\ Head(recieve_queue)[2] \in PercentageTypes

\* C35: for UPDATE_MIN_TEMP, UPDATE_MAX_TEMP, UPDATE_HUMIDITY and
\* UPDATE_LIGHT commands, a payload value above 100 makes the satellite
\* reply NACK with the command's id and put no update on the flash queue or
\* the collector limits queue; a value of at most 100 puts the update on
\* both queues and the satellite replies ACK.
C35_PercentageValidated ==
    [][ /\ PercentageTaken =>
            LET message == Head(recieve_queue)
                update  == [update_attribute |-> AttributeOf(message[2]),
                            buffer |-> << message[5] >>]
            IN  IF message[5] > 100
                THEN /\ outcome'.kind = "command"
                     /\ AddedLow = send_nack(message[3])
                     /\ UNCHANGED <<g_flah_limits_change,
                                    g_sensor_limits_change>>
                ELSE g_flah_limits_change' =
                        Append(g_flah_limits_change, update)
        /\ (outcome'.kind = "command" /\ outcome'.type \in PercentageTypes
            /\ outcome'.value <= 100) =>
              /\ g_sensor_limits_change' =
                    Append(g_sensor_limits_change,
                           [update_attribute |-> AttributeOf(outcome'.type),
                            buffer |-> << outcome'.value >>])
              /\ AddedLow = send_ack(outcome'.id)
      ]_vars

\* The same while the flash queue has room when the command is taken and the
\* low-priority queue has room for the response.
C35_PercentageValidatedWithRoom ==
    [][ Queue_size(queues.low) + 5 <= QUEUE_SIZE =>
        /\ PercentageTaken =>
            LET message == Head(recieve_queue)
                update  == [update_attribute |-> AttributeOf(message[2]),
                            buffer |-> << message[5] >>]
            IN  IF message[5] > 100
                THEN /\ outcome'.kind = "command"
                     /\ AddedLow = send_nack(message[3])
                     /\ UNCHANGED <<g_flah_limits_change,
                                    g_sensor_limits_change>>
                ELSE Len(g_flah_limits_change) < MsgSlots =>
                        g_flah_limits_change' =
                            Append(g_flah_limits_change, update)
        /\ (outcome'.kind = "command" /\ outcome'.type \in PercentageTypes
            /\ outcome'.value <= 100) =>
              /\ g_sensor_limits_change' =
                    Append(g_sensor_limits_change,
                           [update_attribute |-> AttributeOf(outcome'.type),
                            buffer |-> << outcome'.value >>])
              /\ AddedLow = send_ack(outcome'.id)
      ]_vars

-----------------------------------------------------------------------------
(* altair_message_handler on a REQUEST_EVENT_LOG command.  The event file  *)
(* and the command are chosen at the start and recorded in `units`.        *)

\* The longest event file of the model.
MaxEvents == 11

\* An event file of `count` events, one a second from `first`, of the kinds
\* Init, OK to Error, Error to OK in turn.
EventFile(first, count, opens) ==
    [ opens   |-> opens,
      records |-> [i \in 1..count |->
                     [event |-> << EVENT_INIT, EVENT_OK_TO_ERROR,
                                   EVENT_ERROR_TO_OK >>[((i - 1) % 3) + 1],
                      timestamp |-> first + i - 1]] ]

\* Event files with no event, one, two, three and eleven events, and a file
\* of two events with the same timestamp.
EventStores ==
    { EventFile(first, count, opens) :
        first \in {1, 3}, count \in {0, 1, 2, 3, MaxEvents},
        opens \in BOOLEAN }
    \cup { [ opens |-> TRUE,
             records |-> << [event |-> EVENT_INIT, timestamp |-> 2],
                            [event |-> kind, timestamp |-> 2] >> ] :
            kind \in {EVENT_OK_TO_ERROR, EVENT_OK_TO_SAFE} }

EventLogRequests ==
    { [ kind    |-> "request_event", file |-> file,
        start   |-> start, end |-> end,
        message |-> Command_range(REQUEST_EVENT_LOG, start, end, 7) ] :
        file \in EventStores, start \in 0..4, end \in {0, 2, 3, 4, 20} }

InitEventLogs ==
    /\ units \in EventLogRequests
    /\ Constructed

\* The handler takes the command of `units`.
EventLogsHandled ==
    /\ outcome = None
    /\ \E junk \in {0, END_MARK} :
        outcome' = [ kind |-> "request_event_log",
                     id |-> wrap_message(units.message).m_respnse_id,
                     enqueued |->
                        altair_message_handler(<< >>, units.file, 0, junk,
                                               units.message).frames ]
    /\ CodecOnly

NextEventLogs == EventLogsHandled

SpecEventLogs == InitEventLogs /\ [][NextEventLogs]_vars

\* The stored events whose timestamp lies in the range of the request, in
\* stored order.
Matching(u) ==
    LET Matches(e) == u.start <= e.timestamp /\ e.timestamp <= u.end
    IN  SelectSeq(u.file.records, Matches)

\* The frames are one EVENT_LOG frame per event, each with the event's code,
\* and the EVENT_LOG_END frame, all under the id.
EventCodesInOrder(frames, events, id) ==
    /\ Len(frames) = Len(events) + 1
    /\ \A i \in 1..Len(events) :
          /\ frames[i][2] = EVENT_LOG
          /\ frames[i][3] = id
          /\ frames[i][5] = events[i].event
    /\ frames[Len(frames)] = send_message(5, EVENT_LOG_END, id, 0, << >>)

\* C36: for an event-log request that matches n stored events (n at most
\* 10), the satellite sends n EVENT_LOG frames in stored order, the i-th
\* frame carrying both the event code and the timestamp of the i-th matching
\* event, and then one EVENT_LOG_END frame, all with the request's id.
C36_EventLogFramesCarryEachEvent ==
    (outcome.kind = "request_event_log" /\ units.file.opens
     /\ units.start <= units.end /\ Len(Matching(units)) <= MAX_LOGS) =>
        LET frames == FramesOf(outcome.enqueued)
            events == Matching(units)
        IN  /\ EventCodesInOrder(frames, events, outcome.id)
            /\ \A i \in 1..Len(events) :
                  ReadLE32(frames[i], 6) = events[i].timestamp

\* The same with the timestamp of the first matching event in every frame.
C36_EventLogFramesCarryFirstTimestamp ==
    (outcome.kind = "request_event_log" /\ units.file.opens
     /\ units.start <= units.end /\ Len(Matching(units)) <= MAX_LOGS) =>
        LET frames == FramesOf(outcome.enqueued)
            events == Matching(units)
        IN  /\ EventCodesInOrder(frames, events, outcome.id)
            /\ \A i \in 1..Len(events) :
                  ReadLE32(frames[i], 6) = events[1].timestamp

\* C37: each time the transmit task picks a packet it takes it from the
\* high-priority queue if that is non-empty, otherwise from the
\* medium-priority queue, otherwise from the low-priority queue, and it
\* transmits all bytes of that packet (its length byte and the length - 1
\* bytes after it) before it picks again.
C37_PriorityOrderWholePacket ==
    [][ /\ outcome'.kind = "picked" =>
            LET q == outcome'.queue
            IN  /\ TaskAt("transmit", "pick")
                /\ q = "high" <=> queues.high # << >>
                /\ q = "medium" <=> queues.high = << >> /\ queues.medium # << >>
                /\ q = "low" <=> /\ queues.high = << >>
                                 /\ queues.medium = << >>
                                 /\ queues.low # << >>
                /\ Len(outcome'.packet) = Head(queues[q])
                /\ uart' = [by |-> "transmit", bytes |-> << Head(queues[q]) >>]
                /\ queues'[q] = Tail(queues[q])
                /\ task'["transmit"].at = "transmit_queue_data"
        /\ TaskAt("transmit", "transmit_queue_data") =>
            LET t    == task["transmit"]
                rest == SubSeq(queues[t.queue], 1, t.len - 1)
            IN  /\ Len(rest) = t.len - 1
                /\ outcome'.kind # "picked"
                /\ IF uart'.by = "transmit"
                   THEN /\ uart'.bytes = rest
                        /\ queues'[t.queue] =
                              SubSeq(queues[t.queue], t.len,
                                     Len(queues[t.queue]))
                        /\ task'["transmit"].at = "check"
                   ELSE /\ task'["transmit"] = t
                        /\ SubSeq(queues'[t.queue], 1, t.len - 1) = rest
      ]_vars

\* C37 witness: a beacon was just picked from the high-priority queue while
\* an event waits in the medium-priority queue and a response in the
\* low-priority queue.
C37_Witness ==
    /\ outcome.kind = "picked"
    /\ outcome.queue = "high"
    /\ outcome.packet[2] = BEACON
    /\ queues.medium # << >>
    /\ queues.low # << >>
    /\ task["transmit"].at = "transmit_queue_data"

-----------------------------------------------------------------------------
(* Fair scheduling: a task that can take its next step takes it, and the   *)
(* ground station sends the commands of its script.                        *)

Fairness ==
    /\ WF_vars(init_system) /\ WF_vars(init_logger)
    /\ WF_vars(create_recieve_task) /\ WF_vars(create_transmit_task)
    /\ WF_vars(send_time_request) /\ WF_vars(time_synchronised)
    /\ WF_vars(create_core_tasks)
    /\ WF_vars(HAL_UART_RxCpltCallback)
    /\ WF_vars(recieve_task) /\ WF_vars(recieve_task_put)
    /\ WF_vars(wait_for_data_if_all_queues_empty) /\ WF_vars(transmit_wake)
    /\ WF_vars(transmit_pick) /\ WF_vars(transmit_queue_data)
    /\ WF_vars(keep_alive_mode_wait) /\ WF_vars(keep_alive_task)
    /\ WF_vars(initialize_event_filesystem) /\ WF_vars(event_task)
    /\ WF_vars(collection_task)
    /\ WF_vars(logger_beacon_task)
    /\ WF_vars(flash_task)

FairAltair == InitAltair /\ [][NextAltair]_vars /\ Fairness

\* C38: every response the message handler enqueues on the low-priority
\* queue is eventually transmitted on the UART, under fair scheduling of the
\* satellite tasks: the transmit task never stays blocked on its wake-up
\* flags forever while one of its queues holds a packet.
C38_ResponsesEventuallyTransmitted ==
    /\ (queues.low # << >>) ~> (queues.low = << >>)
    /\ ~ <>[] (TaskAt("transmit", "osEventFlagsWait") /\ queues.low # << >>)

\* C39: every acquisition of a sensor-file mutex by the logger task is
\* followed by its release before the task waits for the next sample, on
\* every path including a failed file open or write, so a log-read on
\* behalf of a REQUEST_SENSOR_LOGS that waits on that mutex always
\* eventually proceeds.
C39_LoggerReleasesMutex ==
    [][ outcome'.kind = "logged" =>
          /\ task'["logger"].at = "get"
          /\ \A i \in 1..MAX_DATA_FILES : file_mutexes'[i] = "free"
      ]_vars

\* The same for the turns in which the file opened and the write succeeded.
C39_LoggerReleasesMutexAfterWrite ==
    [][ (outcome'.kind = "logged" /\ outcome'.opened /\ outcome'.written) =>
          /\ task'["logger"].at = "get"
          /\ \A i \in 1..MAX_DATA_FILES : file_mutexes'[i] = "free"
      ]_vars

\* The init task has sent its TIME_REQUEST.
TimeRequested ==
    task["init"].at \in {"wait_for_time_sync", "create_core_tasks", "terminated"}

\* The init task has left wait_for_time_sync: a TIME_SEND was handled.
TimeSynchronised ==
    task["init"].at \in {"create_core_tasks", "terminated"}

\* C40: at start-up the first packet the satellite transmits is the
\* TIME_REQUEST, and it transmits no BEACON and no EVENT packet before it
\* has received a TIME_SEND command and set its clock.
C40_TimeRequestFirst ==
    [][ /\ uart'.by = "init" => uart'.bytes = time_request
        /\ uart'.by = "transmit" => TimeRequested
        /\ (outcome'.kind = "picked" /\ outcome'.packet[2] \in {BEACON, EVENT})
              => (TimeSynchronised /\ rtc >= SyncTime)
      ]_vars

\* The packet the init task writes opens as a TIME_REQUEST under the
\* reserved id.
C40_TimeRequestHeader ==
    [][ uart'.by = "init" =>
          SubSeq(uart'.bytes, 1, 4) = SubSeq(time_request, 1, 4) ]_vars

\* The transmit task writes nothing before the TIME_REQUEST went out.
C40_NothingBeforeTimeRequest ==
    [][ uart'.by = "transmit" => TimeRequested ]_vars

\* No BEACON and no EVENT packet leaves before a TIME_SEND was handled and
\* the clock set.
C40_NoBeaconOrEventBeforeSync ==
    [][ (outcome'.kind = "picked" /\ outcome'.packet[2] \in {BEACON, EVENT})
          => (TimeSynchronised /\ rtc >= SyncTime) ]_vars

=============================================================================
